---- MODULE Spec2Model ----
(***************************************************************************)
(* Paper-trading engine of kis-trading-journal: the single ledger of       *)
(* simulator.py / auto_trader.py (portfolio.json) and the four strategy    *)
(* ledgers of strategy_manager.py (portfolios/<strategy>.json).            *)
(*                                                                         *)
(* Every handler loads the persisted ledger, mutates its copy and saves    *)
(* it; the variables below are the persisted documents.  A handler that    *)
(* raises before its save leaves the documents as they were.               *)
(*                                                                         *)
(* Money is integer won.  Percentages the code computes in floating point  *)
(* are compared exactly (as rationals): for integer prices the distance    *)
(* of pct from a threshold is 0 or at least 1/avg_price, far above the     *)
(* rounding error, and at equality the float result is <= the threshold.   *)
(***************************************************************************)
EXTENDS Integers, Sequences, FiniteSets, TLC

VARIABLES
    portfolio,   \* portfolio.json: the ledger of simulator.py / auto_trader.py
    portfolios,  \* portfolios/<strategy>.json: one ledger per strategy
    last,        \* the last handler run: its name, its outcome, the files it wrote
    cycle,       \* run_all_strategies: where one coordinator cycle stands
    trader,      \* run_trading_day: the process, its locals, strategy_plan.json
    calc,        \* a call of an allocation or analysis function: input, output
    loop         \* run_trading_day by the second: the clock and the loop's locals

vars == <<portfolio, portfolios, last, cycle, trader, calc, loop>>

----------------------------------------------------------------------------
(* Bounds of the model *)

\* largest share count an order or an allocation asks for
MaxShares == 2
\* cap on the number of trade records in portfolio.json
MaxTrades == 2
\* cap on the number of trade records over the strategy ledgers
MaxStrategyTrades == 2
\* longest allocation list handed to a buy
MaxAllocs == 2

MaxScore == 2
\* INITIAL_CASH of simulator.py, scaled to the model's price levels
InitialCash == 300
\* the "seed" of a strategy ledger, scaled to the model's price levels
StrategySeed == 380

----------------------------------------------------------------------------
(* Universe *)

\* two instruments of the watch list
Tickers == {"069500", "102110"}

\* prices the gateway quotes: 93 is exactly -7% of 100
PriceLevels == {93, 100}

\* Python's None, as returned by a failed price lookup
NoneValue == -1

\* "if not x" on a price: None and 0 are both falsy
Falsy(x) == x = NoneValue \/ x = 0

\* Python's floor division a // b (b # 0): rounds toward minus infinity
PyFloorDiv(a, b) == IF b > 0 THEN a \div b ELSE (0 - a) \div (0 - b)

\* what KISClient.get_price does: a quote dict {"price": ...} when rt_cd is
\* "0", None otherwise, or an exception (network, malformed body)
GatewayReplies ==
    {[rt |-> "ok", price |-> p] : p \in PriceLevels}
        \cup {[rt |-> "none", price |-> 0], [rt |-> "raise", price |-> 0]}

\* one gateway reply per instrument, for the duration of one handler
ReplyMaps == [Tickers -> GatewayReplies]

\* simulator.get_current_price: data["price"] if data else None
SimGetCurrentPrice(reply) ==
    IF reply.rt = "ok" THEN reply.price ELSE NoneValue

----------------------------------------------------------------------------
(* Holdings: a dict ticker -> {shares, avg_price, ...} in insertion order *)

Held(h, t) == \E i \in 1..Len(h) : h[i].ticker = t

HIndex(h, t) == CHOOSE i \in 1..Len(h) : h[i].ticker = t

HGet(h, t) == h[HIndex(h, t)]

\* p["holdings"][ticker] = {...}: an existing key keeps its place
HPut(h, t, s, a) ==
    LET e == [ticker |-> t, shares |-> s, avg_price |-> a]
    IN  IF Held(h, t) THEN [h EXCEPT ![HIndex(h, t)] = e] ELSE Append(h, e)

\* a sale that leaves the share count of the holding as it was
HKeepShares(h, t, s) == h

\* p["holdings"][ticker]["shares"] = s
HSetShares(h, t, s) == [h EXCEPT ![HIndex(h, t)].shares = s]

\* a BUY record whose amount forgets the share count
BuyTradeUnitAmount(t, n, price) ==
    [type |-> "BUY", ticker |-> t, shares |-> n, price |-> price,
     amount |-> price]

\* the BUY record of simulator.py and auto_trader.py (name and date left out)
BuyTrade(t, n, price) ==
    [type |-> "BUY", ticker |-> t, shares |-> n, price |-> price,
     amount |-> price * n]

\* a SELL record whose amount is the profit, not the revenue
SellTradeProfitAmount(t, n, price, avg) ==
    [type |-> "SELL", ticker |-> t, shares |-> n, price |-> price,
     amount |-> (price - avg) * n, profit |-> (price - avg) * n]

\* the SELL record of cmd_sell (profit_rate, name and date left out)
SellTrade(t, n, price, avg) ==
    [type |-> "SELL", ticker |-> t, shares |-> n, price |-> price,
     amount |-> price * n, profit |-> (price - avg) * n]

\* the ledger load_portfolio returns when portfolio.json does not exist
FreshPortfolio == [cash |-> InitialCash, holdings |-> <<>>, trades |-> <<>>]

STRATEGIES == <<"dual_momentum", "value_investing", "news_sentiment", "scalping">>

StrategyKeys == {STRATEGIES[i] : i \in 1..Len(STRATEGIES)}

\* a strategy ledger as created: cash = seed, no holdings, no trades, and
\* no report fields yet
FreshStrategyLedger ==
    [cash |-> StrategySeed, holdings |-> <<>>, trades |-> <<>>,
     seed |-> StrategySeed, report |-> <<>>]

\* trade records in the strategy ledgers
StrategyTrades(ps) ==
    Len(ps["dual_momentum"].trades) + Len(ps["value_investing"].trades)
        + Len(ps["news_sentiment"].trades) + Len(ps["scalping"].trades)

\* The two ledger families live in different files and no handler touches
\* both, so the trade budget is spent on one family at a time.
SimBudget(p) == Len(p.trades) <= MaxTrades /\ StrategyTrades(portfolios) = 0

StrategyBudget(ps) ==
    StrategyTrades(ps) <= MaxStrategyTrades /\ Len(portfolio.trades) = 0

Outcome(op, result, written) ==
    [op |-> op, result |-> result, written |-> written, alerted |-> <<>>]

\* the trade records a handler run appended to the ledger it loaded
NewTrades(before, after) ==
    SubSeq(after.trades, Len(before.trades) + 1, Len(after.trades))

\* The trades a handler run sent an alert for.  The alert (notify_buy,
\* notify_stop_loss, send_telegram) is sent right after the record is
\* appended and before the journal entry is written, inside the loop; a
\* journal that cannot be opened raises at the first trade, after its alert.
AlertedTrades(before, reached, journal_ok) ==
    LET new == NewTrades(before, reached)
    IN  IF journal_ok \/ Len(new) = 0 THEN new ELSE SubSeq(new, 1, 1)

Alerting(outcome, before, reached, journal_ok) ==
    [outcome EXCEPT !.alerted = AlertedTrades(before, reached, journal_ok)]

\* Whether the journal sink works during a handler run.  write_journal_buy,
\* write_journal_sell, _write_buy_journal and _write_sell_journal open
\* TRADING_JOURNAL.md with no handler around the open, and they are called
\* once per trade applied; send_telegram catches every exception, and
\* git_push runs after the save.
JournalOutcomes(traded) == IF traded THEN BOOLEAN ELSE {TRUE}

\* no coordinator cycle under way: refresh_market_data has not run
CycleIdle ==
    [pc |-> "idle", k |-> 0, md |-> [t \in Tickers |-> 0],
     file |-> [t \in Tickers |-> 0], events |-> <<>>, analysed |-> {}, failed |-> {}]

\* no run_trading_day process, and no strategy_plan.json; bought counts the
\* executions of the buy plan that have added trades to portfolio.json today
TraderIdle ==
    [running |-> FALSE, morning_done |-> FALSE, swept_recently |-> FALSE,
     clock |-> "night", plan |-> <<>>, has_plan |-> FALSE, bought |-> 0]

\* no run_trading_day process followed by the second
LoopIdle ==
    [running |-> FALSE, now |-> 0, morning_done |-> FALSE, stop_loss_last |-> 0,
     plan |-> <<>>, started |-> 0, last_sweep |-> -1, prev_sweep |-> -1]

\* no function call under study
CalcIdle == [fn |-> "none", inp |-> <<>>, out |-> <<>>, done |-> FALSE]

\* the ledgers as created
FreshLedgers ==
    /\ portfolio = FreshPortfolio
    /\ portfolios = [k \in StrategyKeys |-> FreshStrategyLedger]
    /\ last = Outcome("start", "", {})

Init ==
    /\ FreshLedgers
    /\ cycle = CycleIdle
    /\ trader = TraderIdle
    /\ calc = CalcIdle
    /\ loop = LoopIdle

----------------------------------------------------------------------------
(* simulator.py *)

\* share counts the command line accepts: int(sys.argv[3]) is not validated
CliShares == -1..MaxShares

\* the midpoint of the old average and the new price, whatever the counts
AvgPriceMidpoint(existing, shares, price) ==
    PyFloorDiv(existing.avg_price + price, 2)

\* the weighted average cost of a holding after one more buy, floored
AvgPriceAfterBuy(existing, shares, price) ==
    PyFloorDiv(existing.avg_price * existing.shares + price * shares,
               existing.shares + shares)

\* cmd_buy: [p: the ledger document afterwards, result, saved]
CmdBuyResult(p, ticker, shares, reply) ==
    LET price == SimGetCurrentPrice(reply)
        cost == price * shares
        adds == Held(p.holdings, ticker) /\ HGet(p.holdings, ticker).shares > 0
        existing == HGet(p.holdings, ticker)
        total_shares == IF adds THEN existing.shares + shares ELSE shares
        avg_price == IF adds THEN AvgPriceAfterBuy(existing, shares, price) ELSE price
    IN  IF reply.rt = "raise"
        THEN [p |-> p, result |-> "raised", saved |-> FALSE]
        ELSE IF Falsy(price)
        THEN [p |-> p, result |-> "no_price", saved |-> FALSE]
        ELSE IF cost > p.cash
        THEN [p |-> p, result |-> "refused", saved |-> FALSE]
        ELSE IF adds /\ total_shares = 0
        THEN \* ZeroDivisionError in total_cost // total_shares
             [p |-> p, result |-> "raised", saved |-> FALSE]
        ELSE [p |-> [p EXCEPT
                        !.holdings = HPut(@, ticker, total_shares, avg_price),
                        !.cash = @ - cost,
                        !.trades = Append(@, BuyTrade(ticker, shares, price))],
              result |-> "applied", saved |-> TRUE]

\* the file set a handler of the single ledger wrote
SimWritten(saved) == IF saved THEN {"portfolio"} ELSE {}

CmdBuy(ticker, shares, reply) ==
    \E o \in {CmdBuyResult(portfolio, ticker, shares, reply)} :
        /\ SimBudget(o.p)
        /\ portfolio' = o.p
        /\ last' = Outcome("cmd_buy", o.result, SimWritten(o.saved))
        /\ UNCHANGED portfolios

\* a sell that also clears the avg_price of the holding
CmdSellHoldingsRepriced(h, ticker, shares) ==
    [h EXCEPT ![CHOOSE i \in 1..Len(h) : h[i].ticker = ticker] =
        [ticker |-> ticker, shares |-> @.shares - shares, avg_price |-> 0]]

\* the holdings cmd_sell leaves: only the share count of the ticker changes
CmdSellHoldings(h, ticker, shares) ==
    HSetShares(h, ticker, HGet(h, ticker).shares - shares)

\* whether cmd_sell refuses the order before it fetches a price
CmdSellRefuses(p, ticker, shares) ==
    ~Held(p.holdings, ticker) \/ HGet(p.holdings, ticker).shares < shares

CmdSellResult(p, ticker, shares, reply) ==
    LET price == SimGetCurrentPrice(reply)
        h == HGet(p.holdings, ticker)
    IN  IF CmdSellRefuses(p, ticker, shares)
        THEN [p |-> p, result |-> "refused", saved |-> FALSE]
        ELSE IF reply.rt = "raise"
        THEN [p |-> p, result |-> "raised", saved |-> FALSE]
        ELSE IF Falsy(price)
        THEN [p |-> p, result |-> "no_price", saved |-> FALSE]
        ELSE IF h.avg_price * shares = 0
        THEN \* ZeroDivisionError in profit / (avg_price * shares)
             [p |-> p, result |-> "raised", saved |-> FALSE]
        ELSE [p |-> [p EXCEPT
                        !.holdings = CmdSellHoldings(@, ticker, shares),
                        !.cash = @ + price * shares,
                        !.trades = Append(@, SellTrade(ticker, shares, price,
                                                       h.avg_price))],
              result |-> "applied", saved |-> TRUE]

CmdSell(ticker, shares, reply) ==
    \E o \in {CmdSellResult(portfolio, ticker, shares, reply)} :
        /\ SimBudget(o.p)
        /\ portfolio' = o.p
        /\ last' = Outcome("cmd_sell", o.result, SimWritten(o.saved))
        /\ UNCHANGED portfolios

\* a reset that restores the cash and the holdings but keeps the trade log
ResetKeepingTrades(p) == [p EXCEPT !.cash = InitialCash, !.holdings = <<>>]

\* the dict cmd_reset saves, whatever the ledger was
ResetLedger(p) == FreshPortfolio

\* cmd_reset: the ledger is rewritten only when the prompt is answered "yes"
CmdReset(confirm) ==
    IF confirm
    THEN /\ portfolio' = ResetLedger(portfolio)
         /\ last' = Outcome("cmd_reset", "applied", {"portfolio"})
         /\ UNCHANGED portfolios
    ELSE /\ last' = Outcome("cmd_reset", "cancelled", {})
         /\ UNCHANGED <<portfolio, portfolios>>

----------------------------------------------------------------------------
(* auto_trader.py *)

\* STOP_LOSS_PCT = -7.0, in tenths of a percent
STOP_LOSS_PCT == -70

\* pct <= stop for pct = (cur - avg_price) / avg_price * 100 (avg_price # 0)
\* and stop given in tenths of a percent
PctAtOrBelow(cur, avg_price, stop) ==
    IF avg_price > 0
    THEN (cur - avg_price) * 1000 <= stop * avg_price
    ELSE (cur - avg_price) * 1000 >= stop * avg_price

\* a buy loop that buys the asked count whatever the cash
UnclampedShares(cash, shares, price) == shares

\* the share count a buy loop buys: the asked count, or what the cash pays for
ClampShares(cash, shares, price) ==
    IF price * shares > cash THEN PyFloorDiv(cash, price) ELSE shares

\* the body of execute_buy_plan's loop once the price is known
PlanBuyOne(p, ticker, asked, price) ==
    LET shares == ClampShares(p.cash, asked, price)
        cost == shares * price
        adds == Held(p.holdings, ticker) /\ HGet(p.holdings, ticker).shares > 0
        existing == HGet(p.holdings, ticker)
        total_shares == IF adds THEN existing.shares + shares ELSE shares
        avg_price == IF adds THEN AvgPriceAfterBuy(existing, shares, price) ELSE price
    IN  IF shares <= 0
        THEN p
        ELSE [p EXCEPT !.holdings = HPut(@, ticker, total_shares, avg_price),
                       !.cash = @ - cost,
                       !.trades = Append(@, BuyTrade(ticker, shares, price))]

RECURSIVE PlanLoop(_, _, _, _)
\* execute_buy_plan's loop from allocation i on: [p, raised]
PlanLoop(p, allocations, i, q) ==
    IF i > Len(allocations)
    THEN [p |-> p, raised |-> FALSE]
    ELSE LET a == allocations[i]
             price == SimGetCurrentPrice(q[a.ticker])
         IN  IF a.shares <= 0
             THEN PlanLoop(p, allocations, i + 1, q)
             ELSE IF q[a.ticker].rt = "raise"
             THEN [p |-> p, raised |-> TRUE]
             ELSE IF Falsy(price)
             THEN PlanLoop(p, allocations, i + 1, q)
             ELSE PlanLoop(PlanBuyOne(p, a.ticker, a.shares, price),
                           allocations, i + 1, q)

\* execute_buy_plan: the ledger is saved after the loop, whatever was bought
ExecuteBuyPlanResult(p, allocations, q) ==
    LET o == PlanLoop(p, allocations, 1, q)
    IN  IF o.raised
        THEN [p |-> p, result |-> "raised", saved |-> FALSE, reached |-> o.p]
        ELSE [p |-> o.p,
              result |-> IF Len(o.p.trades) > Len(p.trades)
                         THEN "applied" ELSE "nothing",
              saved |-> TRUE, reached |-> o.p]

\* the allocations of a plan: distinct tickers (the analysis runs over a dict
\* of tickers), share counts floor(alloc_cash / price) >= 0
PlanAllocations ==
    {s \in UNION {[1..n -> [ticker : Tickers, shares : 0..MaxShares]] :
                    n \in 0..MaxAllocs} :
        \A i, j \in 1..Len(s) : s[i].ticker = s[j].ticker => i = j}

\* an instrument no handler asks about gets no reply worth choosing
NoReply == [rt |-> "none", price |-> 0]

RepliesTable ==
    [asked \in SUBSET Tickers |->
        {q \in ReplyMaps : \A t \in Tickers \ asked : q[t] = NoReply}]

RepliesFor(asked) == RepliesTable[asked]

\* one quote, no quote or an exception per instrument asked about: enough
\* where the handler only tests the quote for truth
ReplyKindsTable ==
    [asked \in SUBSET Tickers |->
        {q \in RepliesFor(asked) :
            \A t \in asked :
                q[t].rt = "ok" => \A p \in PriceLevels : q[t].price <= p}]

ReplyKindsFor(asked) == ReplyKindsTable[asked]

\* write_journal_buy raises inside the loop, before save_portfolio
ExecuteBuyPlan(allocations, q) ==
    \E o \in {ExecuteBuyPlanResult(portfolio, allocations, q)} :
        \E journal_ok \in JournalOutcomes(o.result = "applied") :
            /\ SimBudget(o.p)
            /\ portfolio' = IF journal_ok THEN o.p ELSE portfolio
            /\ last' = Alerting(
                         IF journal_ok
                         THEN Outcome("execute_buy_plan", o.result, SimWritten(o.saved))
                         ELSE Outcome("execute_buy_plan", "sink_raised", {}),
                         portfolio, o.reached, journal_ok)
            /\ UNCHANGED portfolios

\* the SELL record of check_stop_loss
StopLossTrade(t, n, price, avg) ==
    [type |-> "SELL", ticker |-> t, shares |-> n, price |-> price,
     amount |-> price * n, profit |-> (price - avg) * n, reason |-> "STOP_LOSS"]

\* a sweep that liquidates whatever is quoted
StopLossAnyQuote(cur, avg_price) == TRUE

\* whether check_stop_loss liquidates a holding quoted at cur
StopLossHit(cur, avg_price) == PctAtOrBelow(cur, avg_price, STOP_LOSS_PCT)

RECURSIVE StopLossLoop(_, _, _)
\* check_stop_loss's loop from holding i on: st = [p, sold_any, raised]
StopLossLoop(st, i, q) ==
    IF i > Len(st.p.holdings)
    THEN st
    ELSE LET h == st.p.holdings[i]
             cur == SimGetCurrentPrice(q[h.ticker])
         IN  IF h.shares <= 0
             THEN StopLossLoop(st, i + 1, q)
             ELSE IF q[h.ticker].rt = "raise"
             THEN [st EXCEPT !.raised = TRUE]
             ELSE IF Falsy(cur)
             THEN StopLossLoop(st, i + 1, q)
             ELSE IF h.avg_price = 0
             THEN \* ZeroDivisionError in (cur - avg_price) / avg_price
                  [st EXCEPT !.raised = TRUE]
             ELSE IF StopLossHit(cur, h.avg_price)
             THEN StopLossLoop(
                      [p |-> [st.p EXCEPT
                                !.cash = @ + cur * h.shares,
                                !.holdings = HSetShares(@, h.ticker, 0),
                                !.trades = Append(@, StopLossTrade(
                                    h.ticker, h.shares, cur, h.avg_price))],
                       sold_any |-> TRUE, raised |-> FALSE],
                      i + 1, q)
             ELSE StopLossLoop(st, i + 1, q)

\* check_stop_loss: the ledger is saved only if something was sold
CheckStopLossResult(p, q) ==
    LET o == StopLossLoop([p |-> p, sold_any |-> FALSE, raised |-> FALSE], 1, q)
    IN  IF o.raised
        THEN [p |-> p, result |-> "raised", saved |-> FALSE, reached |-> o.p]
        ELSE IF o.sold_any
        THEN [p |-> o.p, result |-> "applied", saved |-> TRUE, reached |-> o.p]
        ELSE [p |-> p, result |-> "nothing", saved |-> FALSE, reached |-> p]

\* the tickers a sweep asks the gateway about
OpenTickers(h) == {h[i].ticker : i \in {j \in 1..Len(h) : h[j].shares > 0}}

\* write_journal_sell raises inside the loop, before save_portfolio
CheckStopLoss(q) ==
    \E o \in {CheckStopLossResult(portfolio, q)} :
        \E journal_ok \in JournalOutcomes(o.result = "applied") :
            /\ SimBudget(o.p)
            /\ portfolio' = IF journal_ok THEN o.p ELSE portfolio
            /\ last' = Alerting(
                         IF journal_ok
                         THEN Outcome("check_stop_loss", o.result, SimWritten(o.saved))
                         ELSE Outcome("check_stop_loss", "sink_raised", {}),
                         portfolio, o.reached, journal_ok)
            /\ UNCHANGED portfolios

----------------------------------------------------------------------------
(* strategy_manager.py *)

\* STRATEGY_META[key]["stop_loss"], in tenths of a percent
StopLossOf(key) ==
    CASE key = "dual_momentum" -> -70
      [] key = "value_investing" -> -50
      [] key = "news_sentiment" -> -80
      [] key = "scalping" -> -30

\* strategy_manager.get_current_price: int(data.get("stck_prpr", 0)) on the
\* dict KISClient.get_price returns, which has a "price" key and no
\* "stck_prpr" key; None when the gateway returns None or raises
MgrGetCurrentPrice(reply) ==
    IF reply.rt = "ok" THEN 0 ELSE NoneValue

\* The market data of a cycle: per ticker the newest close, 0 when the
\* ticker is missing, its price list is empty or its newest close is 0.
MarketSnapshots == [Tickers -> PriceLevels \cup {0}]

\* the BUY record of execute_buy
MgrBuyTrade(key, t, n, price) ==
    [type |-> "BUY", ticker |-> t, shares |-> n, price |-> price,
     amount |-> price * n, strategy |-> key]

\* the price execute_buy uses for an allocation: the allocation's own, else
\* the newest close of the market data, else the gateway's
ExecuteBuyPrice(a, md, reply) ==
    LET p1 == a.price
        p2 == IF Falsy(p1) THEN md[a.ticker] ELSE p1
    IN  IF Falsy(p2) THEN MgrGetCurrentPrice(reply) ELSE p2

\* a buy that writes its record over the trade log
ExecuteBuyOneRewritingLog(p, key, ticker, asked, price) ==
    [p EXCEPT !.holdings = HPut(@, ticker, asked, price),
              !.cash = @ - asked * price,
              !.trades = <<[type |-> "BUY", ticker |-> ticker, shares |-> asked,
                            price |-> price, amount |-> price * asked,
                            strategy |-> key]>>]

\* the body of execute_buy's loop once the price is known
ExecuteBuyOne(p, key, ticker, asked, price) ==
    LET shares == ClampShares(p.cash, asked, price)
        cost == shares * price
        adds == Held(p.holdings, ticker) /\ HGet(p.holdings, ticker).shares > 0
        existing == HGet(p.holdings, ticker)
        total_s == IF adds THEN existing.shares + shares ELSE shares
        avg_p == IF adds THEN AvgPriceAfterBuy(existing, shares, price) ELSE price
    IN  IF shares <= 0
        THEN p
        ELSE [p EXCEPT !.holdings = HPut(@, ticker, total_s, avg_p),
                       !.cash = @ - cost,
                       !.trades = Append(@, MgrBuyTrade(key, ticker, shares, price))]

RECURSIVE ExecuteBuyLoop(_, _, _, _, _, _)
\* execute_buy's loop from allocation i on
ExecuteBuyLoop(p, key, allocations, i, md, q) ==
    IF i > Len(allocations)
    THEN p
    ELSE LET a == allocations[i]
             price == ExecuteBuyPrice(a, md, q[a.ticker])
         IN  IF a.shares <= 0 \/ Falsy(price)
             THEN ExecuteBuyLoop(p, key, allocations, i + 1, md, q)
             ELSE ExecuteBuyLoop(ExecuteBuyOne(p, key, a.ticker, a.shares, price),
                                 key, allocations, i + 1, md, q)

\* execute_buy: the ledger of the strategy after the call (always saved)
ExecuteBuyResult(p, key, allocations, md, q) ==
    ExecuteBuyLoop(p, key, allocations, 1, md, q)

\* allocation lists handed to execute_buy: distinct tickers, a price of 0
\* when the allocation carries none.  An entry of 0 shares is skipped by the
\* loop whatever surrounds it, so it is enumerated on its own only.
BuyAllocations ==
    {s \in UNION {[1..n -> [ticker : Tickers, shares : 0..MaxShares,
                            price : PriceLevels \cup {0}]] : n \in 0..MaxAllocs} :
        /\ \A i, j \in 1..Len(s) : s[i].ticker = s[j].ticker => i = j
        /\ \A i \in 1..Len(s) : s[i].shares = 0 => s[i].price = 0 /\ Len(s) = 1}

\* the tickers of an allocation list that are bought (shares > 0)
Asked(allocations) ==
    {allocations[i].ticker : i \in {j \in 1..Len(allocations) : allocations[j].shares > 0}}

\* the tickers execute_buy reads the market data for / asks the gateway about
NeedsMarketData(allocations) ==
    {allocations[i].ticker :
        i \in {j \in 1..Len(allocations) :
                 allocations[j].shares > 0 /\ allocations[j].price = 0}}

SnapshotsTable ==
    [tickers \in SUBSET Tickers |->
        {md \in MarketSnapshots : \A t \in Tickers \ tickers : md[t] = 0}]

SnapshotsFor(tickers) == SnapshotsTable[tickers]

\* _write_buy_journal raises inside the loop, before save_portfolio
ExecuteBuy(key, allocations, md, q) ==
    \E np \in {ExecuteBuyResult(portfolios[key], key, allocations, md, q)} :
        \E journal_ok \in JournalOutcomes(Len(np.trades) > Len(portfolios[key].trades)) :
            /\ StrategyBudget([portfolios EXCEPT ![key] = np])
            /\ portfolios' = IF journal_ok
                             THEN [portfolios EXCEPT ![key] = np]
                             ELSE portfolios
            /\ last' = Alerting(
                         IF journal_ok
                         THEN Outcome("execute_buy",
                                      IF Len(np.trades) > Len(portfolios[key].trades)
                                      THEN "applied" ELSE "nothing",
                                      {key})
                         ELSE Outcome("execute_buy", "sink_raised", {}),
                         portfolios[key], np, journal_ok)
            /\ UNCHANGED portfolio

\* the SELL record of check_stop_loss_all.  h is the holding inside p, so
\* h["shares"] read after p["holdings"][ticker]["shares"] = 0 is 0.
MgrStopLossTrade(key, t, shares_after, price, revenue, profit) ==
    [type |-> "SELL", ticker |-> t, shares |-> shares_after, price |-> price,
     amount |-> revenue, profit |-> profit, reason |-> "STOP_LOSS",
     strategy |-> key]

RECURSIVE MgrStopLossLoop(_, _, _, _)
\* the inner loop of check_stop_loss_all from holding i on: st = [p, sold_any, raised]
MgrStopLossLoop(st, key, i, q) ==
    IF i > Len(st.p.holdings)
    THEN st
    ELSE LET h == st.p.holdings[i]
             cur == MgrGetCurrentPrice(q[h.ticker])
             revenue == cur * h.shares
             profit == (cur - h.avg_price) * h.shares
         IN  IF h.shares <= 0 \/ Falsy(cur)
             THEN MgrStopLossLoop(st, key, i + 1, q)
             ELSE IF h.avg_price = 0
             THEN [st EXCEPT !.raised = TRUE]
             ELSE IF PctAtOrBelow(cur, h.avg_price, StopLossOf(key))
             THEN MgrStopLossLoop(
                      [p |-> [st.p EXCEPT
                                !.cash = @ + revenue,
                                !.holdings = HSetShares(@, h.ticker, 0),
                                !.trades = Append(@, MgrStopLossTrade(
                                    key, h.ticker, 0, cur, revenue, profit))],
                       sold_any |-> TRUE, raised |-> FALSE],
                      key, i + 1, q)
             ELSE MgrStopLossLoop(st, key, i + 1, q)

RECURSIVE StopLossAllLoop(_, _, _)
\* the outer loop of check_stop_loss_all from strategy k on:
\* st = [ps: the ledger files, written: the files saved, raised]
StopLossAllLoop(st, k, q) ==
    IF k > Len(STRATEGIES)
    THEN st
    ELSE LET key == STRATEGIES[k]
             o == MgrStopLossLoop([p |-> st.ps[key], sold_any |-> FALSE,
                                   raised |-> FALSE], key, 1, q)
         IN  IF o.raised
             THEN [st EXCEPT !.raised = TRUE]
             ELSE IF o.sold_any
             THEN StopLossAllLoop([st EXCEPT !.ps[key] = o.p,
                                             !.written = @ \cup {key}], k + 1, q)
             ELSE StopLossAllLoop(st, k + 1, q)

CheckStopLossAllResult(ps, q) ==
    StopLossAllLoop([ps |-> ps, written |-> {}, raised |-> FALSE], 1, q)

\* the tickers with an open holding in some strategy ledger
OpenStrategyTickers ==
    UNION {OpenTickers(portfolios[k].holdings) : k \in StrategyKeys}

CheckStopLossAll(q) ==
    \E o \in {CheckStopLossAllResult(portfolios, q)} :
        /\ StrategyBudget(o.ps)
        /\ portfolios' = o.ps
        /\ last' = Outcome("check_stop_loss_all",
                           IF o.raised THEN "raised"
                           ELSE IF o.written = {} THEN "nothing" ELSE "applied",
                           o.written)
        /\ UNCHANGED portfolio

\* value_investing.py: MAX_POSITIONS and MAX_WEIGHT_PER_TICKER (in percent);
\* quant_engine.py: DualMomentumStrategy.TOP_N
MAX_POSITIONS == 3

MAX_WEIGHT_PER_TICKER == 40

TOP_N == 4

RECURSIVE SumScores(_, _)
\* sum(c["score"] for c in candidates), over the first n candidates
SumScores(candidates, n) ==
    IF n = 0 THEN 0 ELSE SumScores(candidates, n - 1) + candidates[n].score

\* every candidate weighted alike, whatever the scores
RawWeightEqual(candidates, i) == [num |-> 1, den |-> Len(candidates)]

\* ValueInvestingStrategy.get_allocations: the raw weight of candidate i as a
\* fraction, score / total_score, or 1 / n when total_score is 0
RawWeight(candidates, i) ==
    LET total_score == SumScores(candidates, Len(candidates))
    IN  IF total_score = 0
        THEN [num |-> 1, den |-> Len(candidates)]
        ELSE [num |-> candidates[i].score, den |-> total_score]

\* the raw weight, left uncapped
UncappedWeight(w) == w

\* min(w, MAX_WEIGHT_PER_TICKER), without renormalisation
CappedWeight(w) ==
    IF 100 * w.num > MAX_WEIGHT_PER_TICKER * w.den
    THEN [num |-> MAX_WEIGHT_PER_TICKER, den |-> 100]
    ELSE w

\* shares = int(alloc_cash // price) when price > 0 and alloc_cash >= price,
\* else 0, with alloc_cash = cash * weight
SharesFor(cash, w, price) ==
    IF price > 0 /\ cash * w.num >= price * w.den
    THEN (cash * w.num) \div (w.den * price)
    ELSE 0

RECURSIVE AllocationEntries(_, _, _)
\* the loop of get_allocations over the first n candidates.  Its entries
\* carry no "price" key: execute_buy reads a.get("price", 0) = 0
AllocationEntries(candidates, cash, n) ==
    IF n = 0
    THEN <<>>
    ELSE Append(AllocationEntries(candidates, cash, n - 1),
                [ticker |-> candidates[n].ticker,
                 shares |-> SharesFor(cash, CappedWeight(RawWeight(candidates, n)),
                                      candidates[n].price),
                 price |-> 0])

GetAllocations(candidates, cash) ==
    IF Len(candidates) = 0 \/ cash <= 0
    THEN <<>>
    ELSE AllocationEntries(candidates, cash, Len(candidates))

\* run_strategy_analysis for dual_momentum: the price of an allocation is the
\* newest close of the market data, else the analysis's own
DualMomentumPrice(a, md) ==
    IF Falsy(md[a.ticker]) THEN a.price ELSE md[a.ticker]

\* shares = int(cash * w / price) with w = a.get("weight", 0.25); the
\* allocations of get_allocation have a "weight_pct" key and no "weight" key
DualMomentumShares(cash, price) ==
    IF price > 0 THEN cash \div (4 * price) ELSE 0

RECURSIVE DualMomentumSized(_, _, _, _)
\* the loop of run_strategy_analysis over the first n allocations, keeping
\* those with shares > 0
DualMomentumSized(allocations, md, cash, n) ==
    IF n = 0
    THEN <<>>
    ELSE LET price == DualMomentumPrice(allocations[n], md)
             shares == DualMomentumShares(cash, price)
             before == DualMomentumSized(allocations, md, cash, n - 1)
         IN  IF shares > 0
             THEN Append(before, [ticker |-> allocations[n].ticker,
                                  shares |-> shares, price |-> price])
             ELSE before

DualMomentumAllocations(allocations, md, cash) ==
    DualMomentumSized(allocations, md, cash, Len(allocations))

\* run_strategy_analysis: [raised, allocations].  analysis is what the
\* strategy's analysis produced: ok = FALSE when run_full_analysis returns
\* (None, None); load_strategy raises when the strategy's module is not there.
RunStrategyAnalysis(key, analysis, md, cash) ==
    CASE key = "dual_momentum" ->
            IF analysis.ok
            THEN [raised |-> FALSE,
                  allocations |-> DualMomentumAllocations(analysis.candidates, md, cash)]
            ELSE [raised |-> TRUE, allocations |-> <<>>]
      [] key = "value_investing" ->
            [raised |-> FALSE,
             allocations |-> GetAllocations(analysis.candidates, cash)]
      [] OTHER -> [raised |-> TRUE, allocations |-> <<>>]

\* a has_holdings that sees no holding
HasHoldingsNever(p) == FALSE

\* has_holdings = any(h["shares"] > 0 for h in p["holdings"].values())
HasHoldings(p) == \E i \in 1..Len(p.holdings) : p.holdings[i].shares > 0

\* one turn of the buy loop of run_all_strategies: [p, result, saved]
BuyPhaseResult(p, key, analysis, md, q) ==
    IF HasHoldings(p)
    THEN [p |-> p, result |-> "skipped", saved |-> FALSE]
    ELSE LET r == RunStrategyAnalysis(key, analysis, md, p.cash)
         IN  IF r.raised
             THEN [p |-> p, result |-> "error", saved |-> FALSE]
             ELSE IF Len(r.allocations) = 0
             THEN [p |-> p, result |-> "no_candidates", saved |-> FALSE]
             ELSE [p |-> ExecuteBuyResult(p, key, r.allocations, md, q),
                   result |-> "bought", saved |-> TRUE]

\* what an analysis hands over: candidates with distinct tickers, a positive
\* score and the price the analysis saw
CandidateLists ==
    {s \in UNION {[1..n -> [ticker : Tickers, score : 1..MaxScore,
                            price : PriceLevels]] : n \in 0..MaxAllocs} :
        \A i, j \in 1..Len(s) : s[i].ticker = s[j].ticker => i = j}

NoAnalysis == [ok |-> TRUE, candidates |-> <<>>]

\* the analyses a strategy can produce.  get_allocation of dual_momentum keeps
\* TOP_N and its score plays no part in sizing; analyze of value_investing
\* sorts by score, highest first, and keeps MAX_POSITIONS.
AnalysesOf(key) ==
    CASE key = "dual_momentum" ->
            {[ok |-> FALSE, candidates |-> <<>>]} \cup
            {[ok |-> TRUE, candidates |-> c] :
                c \in {s \in CandidateLists :
                         /\ Len(s) <= TOP_N
                         /\ \A i \in 1..Len(s) : s[i].score = 1}}
      [] key = "value_investing" ->
            {[ok |-> TRUE, candidates |-> c] :
                c \in {s \in CandidateLists :
                         /\ Len(s) <= MAX_POSITIONS
                         /\ \A i \in 1..Len(s) - 1 : s[i].score >= s[i + 1].score}}
      [] OTHER -> {NoAnalysis}

\* the market snapshots an analysis can have come from: both strategies price
\* a candidate at its newest close; for dual_momentum the snapshot handed to
\* the buy loop may lack the ticker that the analysis read from its own file
SnapshotsOf(key, analysis) ==
    LET c == analysis.candidates
        priced == {c[i].ticker : i \in 1..Len(c)}
    IN  {md \in SnapshotsFor(priced) :
            \A i \in 1..Len(c) :
                \/ md[c[i].ticker] = c[i].price
                \/ key = "dual_momentum" /\ md[c[i].ticker] = 0}

\* the analysis and the snapshot a turn of the buy loop can meet
PhaseInputs ==
    [key \in StrategyKeys |->
        UNION {{[analysis |-> a, md |-> md] : md \in SnapshotsOf(key, a)} :
                  a \in AnalysesOf(key)}]

\* a ledger that is skipped reads neither the analysis nor the snapshot
SkippedInput == [analysis |-> NoAnalysis, md |-> [t \in Tickers |-> 0]]

\* the candidates of a buy phase are priced, so its execute_buy asks the
\* gateway nothing
NoReplies == [t \in Tickers |-> NoReply]

\* an exception of execute_buy, the journal's included, is caught by the
\* loop of run_all_strategies
BuyPhase(key, analysis, md) ==
    \E o \in {BuyPhaseResult(portfolios[key], key, analysis, md, NoReplies)} :
        \E journal_ok \in JournalOutcomes(Len(o.p.trades) > Len(portfolios[key].trades)) :
            /\ StrategyBudget([portfolios EXCEPT ![key] = o.p])
            /\ portfolios' = IF journal_ok
                             THEN [portfolios EXCEPT ![key] = o.p]
                             ELSE portfolios
            /\ last' = Alerting(
                         IF journal_ok
                         THEN Outcome("buy_phase", o.result,
                                      IF o.saved THEN {key} ELSE {})
                         ELSE Outcome("buy_phase", "error", {}),
                         portfolios[key], o.p, journal_ok)
            /\ UNCHANGED portfolio

\* round(x, 2) of x = n / d (d > 0), in hundredths, ties to even
RoundHundredths(n, d) ==
    LET scaled == 100 * n
        lo == PyFloorDiv(scaled, d)
        r == scaled - lo * d
    IN  IF 2 * r < d THEN lo
        ELSE IF 2 * r > d THEN lo + 1
        ELSE IF lo % 2 = 0 THEN lo ELSE lo + 1

\* the price generate_comparison_report values a holding at: the newest close
\* of the market data, else the gateway's, else the holding's avg_price
ReportPrice(h, md, reply) ==
    LET c1 == md[h.ticker]
        c2 == IF Falsy(c1) THEN MgrGetCurrentPrice(reply) ELSE c1
    IN  IF Falsy(c2) THEN h.avg_price ELSE c2

RECURSIVE ReportTotals(_, _, _, _, _)
\* the holdings loop of generate_comparison_report from holding i on:
\* acc = [total_eval, total_cost, raised]
ReportTotals(holdings, i, md, q, acc) ==
    IF i > Len(holdings)
    THEN acc
    ELSE LET h == holdings[i]
             cur == ReportPrice(h, md, q[h.ticker])
         IN  IF h.shares <= 0
             THEN ReportTotals(holdings, i + 1, md, q, acc)
             ELSE IF h.avg_price = 0
             THEN [acc EXCEPT !.raised = TRUE]
             ELSE ReportTotals(holdings, i + 1, md, q,
                               [acc EXCEPT !.total_eval = @ + cur * h.shares,
                                           !.total_cost = @ + h.avg_price * h.shares])

\* the fields generate_comparison_report adds to a ledger before saving it:
\* total_profit and total_return_pct (in hundredths of a percent)
ReportFields(p, md, q) ==
    LET acc == ReportTotals(p.holdings, 1, md, q,
                            [total_eval |-> 0, total_cost |-> 0, raised |-> FALSE])
        total_profit == acc.total_eval - acc.total_cost
    IN  [raised |-> acc.raised,
         total_assets |-> acc.total_eval + p.cash,
         report |-> <<total_profit,
                      IF acc.total_cost > 0
                      THEN RoundHundredths(total_profit * 100, acc.total_cost)
                      ELSE 0>>]

RECURSIVE ReportLoop(_, _, _, _)
\* the strategy loop of generate_comparison_report from strategy k on:
\* st = [ps, written, raised, total_assets_all, total_seed_all]
ReportLoop(st, k, md, q) ==
    IF k > Len(STRATEGIES)
    THEN st
    ELSE LET key == STRATEGIES[k]
             f == ReportFields(st.ps[key], md, q)
         IN  IF f.raised
             THEN [st EXCEPT !.raised = TRUE]
             ELSE ReportLoop(
                      [st EXCEPT !.ps[key].report = f.report,
                                 !.written = @ \cup {key},
                                 !.total_assets_all = @ + f.total_assets,
                                 !.total_seed_all = @ + st.ps[key].seed],
                      k + 1, md, q)

GenerateComparisonReportResult(ps, md, q) ==
    ReportLoop([ps |-> ps, written |-> {}, raised |-> FALSE,
                total_assets_all |-> 0, total_seed_all |-> 0], 1, md, q)

GenerateComparisonReport(md, q) ==
    \E o \in {GenerateComparisonReportResult(portfolios, md, q)} :
        /\ portfolios' = o.ps
        /\ last' = Outcome("generate_comparison_report",
                           IF o.raised THEN "raised" ELSE "applied", o.written)
        /\ UNCHANGED portfolio

----------------------------------------------------------------------------

\* One ledger family is exercised per behaviour: the journal of simulator.py
\* and auto_trader.py, or the strategy ledgers of strategy_manager.py.
SimIdle == portfolio = FreshPortfolio

ManagerIdle == portfolios = [k \in StrategyKeys |-> FreshStrategyLedger]

\* the plans and allocation lists that fit in what is left of a trade log's cap
PlansWithin ==
    [n \in 0..MaxTrades |-> {a \in PlanAllocations : Cardinality(Asked(a)) <= n}]

AllocationsWithin ==
    [n \in 0..MaxStrategyTrades |->
        {a \in BuyAllocations : Cardinality(Asked(a)) <= n}]

\* what the command lines and the functions of the ledgers leave alone
Others == <<cycle, trader, calc, loop>>

NextSim ==
    \/ \E t \in Tickers, n \in CliShares, r \in GatewayReplies :
          ManagerIdle /\ CmdBuy(t, n, r) /\ UNCHANGED Others
    \/ \E t \in Tickers, n \in CliShares, r \in GatewayReplies :
          ManagerIdle /\ CmdSell(t, n, r) /\ UNCHANGED Others
    \/ \E c \in BOOLEAN : ManagerIdle /\ CmdReset(c) /\ UNCHANGED Others
    \/ \E a \in PlansWithin[MaxTrades - Len(portfolio.trades)] :
          /\ ManagerIdle
          /\ \E q \in RepliesFor(Asked(a)) : ExecuteBuyPlan(a, q)
          /\ UNCHANGED Others
    \/ \E q \in RepliesFor(OpenTickers(portfolio.holdings)) :
          ManagerIdle /\ CheckStopLoss(q) /\ UNCHANGED Others

NextManager ==
    \/ \E key \in StrategyKeys,
             a \in AllocationsWithin[MaxStrategyTrades - StrategyTrades(portfolios)] :
          /\ SimIdle
          /\ \E md \in SnapshotsFor(NeedsMarketData(a)) :
                \E q \in ReplyKindsFor({t \in NeedsMarketData(a) : md[t] = 0}) :
                    ExecuteBuy(key, a, md, q)
          /\ UNCHANGED Others
    \/ \E q \in RepliesFor(OpenStrategyTickers) :
          SimIdle /\ CheckStopLossAll(q) /\ UNCHANGED Others
    \/ \E md \in SnapshotsFor(OpenStrategyTickers) :
          \E q \in ReplyKindsFor({t \in OpenStrategyTickers : md[t] = 0}) :
              SimIdle /\ GenerateComparisonReport(md, q) /\ UNCHANGED Others
    \/ \E key \in StrategyKeys :
          /\ SimIdle
          /\ \E inp \in IF HasHoldings(portfolios[key])
                       THEN {SkippedInput} ELSE PhaseInputs[key] :
                BuyPhase(key, inp.analysis, inp.md)
          /\ UNCHANGED Others

Next == NextSim \/ NextManager

Spec == Init /\ [][Next]_vars

----------------------------------------------------------------------------
(* Properties of the ledgers *)

RECURSIVE SumAmounts(_, _, _)
\* the sum of the amounts of the trades of one type among the first n
SumAmounts(trades, type, n) ==
    IF n = 0
    THEN 0
    ELSE SumAmounts(trades, type, n - 1)
            + (IF trades[n].type = type THEN trades[n].amount ELSE 0)

RECURSIVE CostBasis(_, _)
\* the sum of avg_price * shares over the first n holdings
CostBasis(holdings, n) ==
    IF n = 0
    THEN 0
    ELSE CostBasis(holdings, n - 1) + holdings[n].avg_price * holdings[n].shares

\* seed - money spent on buys + money received on sells
NetCashFlow(seed, trades) ==
    seed - SumAmounts(trades, "BUY", Len(trades))
         + SumAmounts(trades, "SELL", Len(trades))

\* every ledger file with its seed: portfolio.json and the four strategy files
Ledgers ==
    {[seed |-> InitialCash, cash |-> portfolio.cash,
      holdings |-> portfolio.holdings, trades |-> portfolio.trades]}
    \cup {[seed |-> portfolios[k].seed, cash |-> portfolios[k].cash,
           holdings |-> portfolios[k].holdings, trades |-> portfolios[k].trades] :
            k \in StrategyKeys}

\* C1 as stated: in every ledger, after every mutation, cash plus the sum of
\* avg_price * shares over the holdings equals seed - BUY amounts + SELL
\* amounts (read here for the ledgers whose trades all have shares > 0).
C1_CashPlusCostBasisIsNetFlow ==
    \A l \in Ledgers :
        (\A i \in 1..Len(l.trades) : l.trades[i].shares > 0)
        => l.cash + CostBasis(l.holdings, Len(l.holdings))
              = NetCashFlow(l.seed, l.trades)

\* C1 amended: in every ledger, after every mutation, cash alone equals
\* seed - (sum of the amounts of all BUY trades) + (sum of the amounts of all
\* SELL trades); the cost of the shares held is not part of that balance.
C1_CashIsNetFlow ==
    \A l \in Ledgers : l.cash = NetCashFlow(l.seed, l.trades)

\* a manual sell has just been applied to a ledger that also records a buy
C1_Witness ==
    /\ last.op = "cmd_sell" /\ last.result = "applied"
    /\ \E i \in 1..Len(portfolio.trades) : portfolio.trades[i].type = "BUY"
    /\ \E i \in 1..Len(portfolio.trades) :
          portfolio.trades[i].type = "SELL" /\ portfolio.trades[i].amount > 0

RECURSIVE BreachRevenue(_, _, _, _)
\* what the sweep of one strategy should credit: current * shares over the
\* first n holdings that are open and quoted at or below the threshold
BreachRevenue(key, holdings, q, n) ==
    IF n = 0
    THEN 0
    ELSE BreachRevenue(key, holdings, q, n - 1)
            + (IF /\ holdings[n].shares > 0
                  /\ q[holdings[n].ticker].rt = "ok"
                  /\ holdings[n].avg_price > 0
                  /\ PctAtOrBelow(q[holdings[n].ticker].price,
                                  holdings[n].avg_price, StopLossOf(key))
               THEN q[holdings[n].ticker].price * holdings[n].shares
               ELSE 0)

\* C2: when check_stop_loss_all runs, every open holding whose quote succeeds
\* with pct <= the threshold of its strategy ends the sweep with 0 shares,
\* the cash of its ledger grows by current * the shares held before, and the
\* ledger is saved.
C2_SweepLiquidatesBreaches ==
    [][last'.op = "check_stop_loss_all" =>
        \A q \in RepliesFor(OpenStrategyTickers) :
            CheckStopLossAll(q) =>
                \A key \in StrategyKeys :
                    LET h == portfolios[key].holdings
                        owed == BreachRevenue(key, h, q, Len(h))
                    IN  /\ portfolios'[key].cash = portfolios[key].cash + owed
                        /\ owed > 0 => key \in last'.written
                        /\ \A i \in 1..Len(h) :
                              (/\ h[i].shares > 0
                               /\ q[h[i].ticker].rt = "ok"
                               /\ PctAtOrBelow(q[h[i].ticker].price, h[i].avg_price,
                                               StopLossOf(key)))
                              => portfolios'[key].holdings[i].shares = 0]_vars

\* C5: no holding of any ledger ever has a negative share count.
C5_SharesNeverNegative ==
    \A l \in Ledgers : \A i \in 1..Len(l.holdings) : l.holdings[i].shares >= 0

\* C6: every trade record of every ledger has shares > 0, price > 0 and
\* amount = shares * price.
C6_TradesWellFormed ==
    \A l \in Ledgers :
        \A i \in 1..Len(l.trades) :
            /\ l.trades[i].shares > 0
            /\ l.trades[i].price > 0
            /\ l.trades[i].amount = l.trades[i].shares * l.trades[i].price

\* the share count of ticker t in holdings h, 0 when t is not held
SharesOf(h, t) == IF Held(h, t) THEN HGet(h, t).shares ELSE 0

\* one order for n shares of t, as a plan and as an allocation list
OneOrder(t, n) == <<[ticker |-> t, shares |-> n]>>

OnePricedOrder(t, n, price) == <<[ticker |-> t, shares |-> n, price |-> price]>>

\* the gateway quoting price for t and nothing else
Quoting(t, price) ==
    [u \in Tickers |-> IF u = t THEN [rt |-> "ok", price |-> price] ELSE NoReply]

\* a buy loop met an order it cannot pay in full: it bought m = cash // price
\* shares when m > 0, and nothing otherwise
ClampedTo(before, after, t, n, price) ==
    LET m == PyFloorDiv(before.cash, price)
    IN  IF m <= 0
        THEN after = before
        ELSE /\ after.cash = before.cash - m * price
             /\ Len(after.trades) = Len(before.trades) + 1
             /\ after.trades[Len(after.trades)].shares = m
             /\ after.trades[Len(after.trades)].amount = m * price
             /\ SharesOf(after.holdings, t)
                   = (IF SharesOf(before.holdings, t) > 0
                      THEN SharesOf(before.holdings, t) ELSE 0) + m
             /\ m < n

\* C4 as stated: at every entry point, a buy whose shares * price exceeds the
\* cash of the ledger is refused and leaves the ledger as it was.
C4_UnaffordableBuyRefused ==
    \A t \in Tickers, n \in 1..MaxShares, price \in PriceLevels :
        /\ n * price > portfolio.cash =>
              /\ CmdBuyResult(portfolio, t, n, [rt |-> "ok", price |-> price]).p
                    = portfolio
              /\ ExecuteBuyPlanResult(portfolio, OneOrder(t, n),
                                      Quoting(t, price)).p = portfolio
        /\ \A key \in StrategyKeys :
              n * price > portfolios[key].cash =>
                  ExecuteBuyResult(portfolios[key], key,
                                   OnePricedOrder(t, n, price),
                                   [u \in Tickers |-> 0], NoReplies)
                      = portfolios[key]

\* C4 amended: cmd_buy refuses a buy whose shares * price exceeds the cash and
\* leaves the ledger as it was; execute_buy_plan and execute_buy do not
\* refuse it: they cut the order down to cash // price shares and buy those,
\* and leave the ledger as it was only when cash // price <= 0.
C4_RefusedOrClamped ==
    \A t \in Tickers, n \in 1..MaxShares, price \in PriceLevels :
        /\ n * price > portfolio.cash =>
              /\ CmdBuyResult(portfolio, t, n, [rt |-> "ok", price |-> price])
                    = [p |-> portfolio, result |-> "refused", saved |-> FALSE]
              /\ ClampedTo(portfolio,
                           ExecuteBuyPlanResult(portfolio, OneOrder(t, n),
                                                Quoting(t, price)).p,
                           t, n, price)
        /\ \A key \in StrategyKeys :
              n * price > portfolios[key].cash =>
                  ClampedTo(portfolios[key],
                            ExecuteBuyResult(portfolios[key], key,
                                             OnePricedOrder(t, n, price),
                                             [u \in Tickers |-> 0], NoReplies),
                            t, n, price)

\* cmd_buy has just refused an order in a ledger that can still pay for one
\* share of it, so that a buy loop would cut the same order down
C4_Witness ==
    /\ last.op = "cmd_buy" /\ last.result = "refused"
    /\ \E price \in PriceLevels :
          portfolio.cash >= price /\ portfolio.cash < MaxShares * price

RECURSIVE PlannedCost(_, _, _)
\* the sum of shares * price over the first n allocations, priced by prices
PlannedCost(allocations, prices, n) ==
    IF n = 0
    THEN 0
    ELSE PlannedCost(allocations, prices, n - 1) + allocations[n].shares * prices[n]

\* get_allocations keeps every order within its allocated cash, cash times
\* the smaller of the score share and the cap, and all of them within cash
ValueAllocationsWithin(candidates, cash) ==
    \A al \in {GetAllocations(candidates, cash)},
       total \in {SumScores(candidates, Len(candidates))} :
        /\ \A i \in 1..Len(al) :
              /\ al[i].shares >= 0
              /\ al[i].shares * candidates[i].price * 100
                    <= cash * MAX_WEIGHT_PER_TICKER
              /\ al[i].shares * candidates[i].price * total
                    <= cash * candidates[i].score
        /\ PlannedCost(al, [i \in 1..Len(al) |-> candidates[i].price], Len(al))
              <= cash

\* run_strategy_analysis keeps every dual_momentum order within a quarter of
\* the cash, and all of them within cash
MomentumAllocationsWithin(candidates, md, cash) ==
    \A al \in {DualMomentumAllocations(candidates, md, cash)} :
        /\ \A i \in 1..Len(al) :
              al[i].shares > 0 /\ al[i].shares * al[i].price * TOP_N <= cash
        /\ PlannedCost(al, [i \in 1..Len(al) |-> al[i].price], Len(al)) <= cash

\* C3: for any candidate list and whatever cash its ledger has, each
\* allocation engine sizes every order within its allocated cash and all
\* orders of a list within the cash; and whatever the buy phases and
\* execute_buy have applied, the cash of a strategy ledger is never negative.
C3_NeverOverspends ==
    /\ \A key \in StrategyKeys : portfolios[key].cash >= 0
    /\ \A c \in CandidateLists :
          ValueAllocationsWithin(c, portfolios["value_investing"].cash)
    /\ \A inp \in PhaseInputs["dual_momentum"] :
          MomentumAllocationsWithin(inp.analysis.candidates, inp.md,
                                    portfolios["dual_momentum"].cash)

\* a buy phase has just bought for value_investing what get_allocations sized
C3_Witness ==
    /\ last.op = "buy_phase" /\ last.result = "bought"
    /\ last.written = {"value_investing"}
    /\ portfolios["value_investing"].cash < StrategySeed
    /\ Len(portfolios["value_investing"].trades) = MaxStrategyTrades

\* trade log a is the beginning of trade log b
IsPrefix(a, b) ==
    Len(a) <= Len(b) /\ \A i \in 1..Len(a) : a[i] = b[i]

\* C7: every step other than a confirmed reset leaves each trade log as it
\* was, followed by zero or more new records.
C7_TradeLogAppendOnly ==
    [][~(last'.op = "cmd_reset" /\ last'.result = "applied") =>
        /\ IsPrefix(portfolio.trades, portfolio'.trades)
        /\ \A key \in StrategyKeys :
              IsPrefix(portfolios[key].trades, portfolios'[key].trades)]_vars

\* the comparison report has just rewritten a ledger that records a trade
C7_Witness ==
    /\ last.op = "generate_comparison_report"
    /\ \E key \in last.written :
          /\ Len(portfolios[key].trades) > 0
          /\ portfolios[key].report # <<>>

\* holdings h2 list the tickers of h with the avg_price they had
SameAvgPrices(h, h2) ==
    /\ Len(h2) = Len(h)
    /\ \A i \in 1..Len(h) :
          h2[i].ticker = h[i].ticker /\ h2[i].avg_price = h[i].avg_price

\* C8: a manual sell or a stop-loss sweep leaves the avg_price of every
\* holding exactly as it was.
C8_SellKeepsAvgPrice ==
    [][last'.op \in {"cmd_sell", "check_stop_loss", "check_stop_loss_all"} =>
        /\ SameAvgPrices(portfolio.holdings, portfolio'.holdings)
        /\ \A key \in StrategyKeys :
              SameAvgPrices(portfolios[key].holdings,
                            portfolios'[key].holdings)]_vars

\* a manual sell has just sold part of a holding
C8_Witness ==
    /\ last.op = "cmd_sell" /\ last.result = "applied"
    /\ \E i \in 1..Len(portfolio.holdings) :
          /\ portfolio.holdings[i].shares > 0
          /\ portfolio.holdings[i].avg_price > 0
          /\ portfolio.trades[Len(portfolio.trades)].ticker
                = portfolio.holdings[i].ticker
          /\ portfolio.trades[Len(portfolio.trades)].type = "SELL"

\* the pairs of a ledger before a step and the same ledger after it
LedgerSteps ==
    {[before |-> portfolio, after |-> portfolio']}
    \cup {[before |-> [cash |-> portfolios[k].cash,
                       holdings |-> portfolios[k].holdings,
                       trades |-> portfolios[k].trades],
           after |-> [cash |-> portfolios'[k].cash,
                      holdings |-> portfolios'[k].holdings,
                      trades |-> portfolios'[k].trades]] : k \in StrategyKeys}

BuyOps == {"cmd_buy", "execute_buy_plan", "execute_buy", "buy_phase"}

\* the avg_price of ticker t in holdings h
AvgOf(h, t) == HGet(h, t).avg_price

\* C9 as stated: after a buy of n shares at price p into a holding of s > 0
\* shares with average a, avg_price * (s + n) = a * s + n * p; a buy into an
\* absent or empty holding sets avg_price = p.
C9_AvgPriceExact ==
    [][last'.op \in BuyOps =>
        \A l \in LedgerSteps :
            \A k \in Len(l.before.trades) + 1 .. Len(l.after.trades) :
                LET t == l.after.trades[k].ticker
                    n == l.after.trades[k].shares
                    price == l.after.trades[k].price
                    s == SharesOf(l.before.holdings, t)
                IN  IF s > 0
                    THEN AvgOf(l.after.holdings, t) * (s + n)
                            = AvgOf(l.before.holdings, t) * s + n * price
                    ELSE AvgOf(l.after.holdings, t) = price]_vars

RECURSIVE CostOf(_, _, _)
\* the sum of the amounts of the BUY trades of ticker t among the first n
CostOf(trades, t, n) ==
    IF n = 0
    THEN 0
    ELSE CostOf(trades, t, n - 1)
            + (IF trades[n].type = "BUY" /\ trades[n].ticker = t
               THEN trades[n].amount ELSE 0)

\* C9 amended: after a buy of n shares at price p into a holding of s > 0
\* shares with average a, avg_price is (a * s + n * p) divided by (s + n)
\* and rounded down, so avg_price * (s + n) <= a * s + n * p
\* < (avg_price + 1) * (s + n); a buy into an absent or empty holding sets
\* avg_price = p; and in a ledger that records only buys, avg_price * shares
\* is at most the total cost of the shares held.
C9_AvgPriceFloored ==
    [][last'.op \in BuyOps =>
        \A l \in LedgerSteps :
            /\ \A k \in Len(l.before.trades) + 1 .. Len(l.after.trades) :
                  LET t == l.after.trades[k].ticker
                      n == l.after.trades[k].shares
                      price == l.after.trades[k].price
                      s == SharesOf(l.before.holdings, t)
                      total == AvgOf(l.before.holdings, t) * s + n * price
                      avg == AvgOf(l.after.holdings, t)
                  IN  IF s > 0
                      THEN /\ avg * (s + n) <= total
                           /\ total < (avg + 1) * (s + n)
                           /\ SharesOf(l.after.holdings, t) = s + n
                      ELSE /\ avg = price
                           /\ SharesOf(l.after.holdings, t) = n
            /\ (\A k \in 1..Len(l.after.trades) :
                    l.after.trades[k].type = "BUY" /\ l.after.trades[k].shares > 0)
               => \A i \in 1..Len(l.after.holdings) :
                     LET h == l.after.holdings[i]
                     IN  h.avg_price * h.shares
                            <= CostOf(l.after.trades, h.ticker, Len(l.after.trades))
       ]_vars

\* a second buy has just been averaged into a holding, and the rounding shows
C9_Witness ==
    /\ last.op \in {"cmd_buy", "execute_buy_plan"} /\ last.result = "applied"
    /\ Len(portfolio.trades) = 2
    /\ \E i \in 1..Len(portfolio.holdings) :
          LET h == portfolio.holdings[i]
          IN  /\ h.shares = portfolio.trades[1].shares + portfolio.trades[2].shares
              /\ portfolio.trades[1].shares > 0 /\ portfolio.trades[2].shares > 0
              /\ h.avg_price * h.shares
                    < CostOf(portfolio.trades, h.ticker, Len(portfolio.trades))

\* the quote of holding h is unavailable, or puts it strictly above stop
Spared(h, reply, stop) ==
    \/ reply.rt # "ok"
    \/ Falsy(reply.price)
    \/ ~PctAtOrBelow(reply.price, h.avg_price, stop)

\* what a sweep may do to the holdings h of a ledger, given the quotes q and
\* the threshold stop: a spared holding is untouched and has no new trade,
\* every holding keeps its share count or drops to 0, and the cash grows by
\* the amounts of the new trades
SweepFrame(before, after, q, stop) ==
    LET h == before.holdings
        new == Len(before.trades) + 1 .. Len(after.trades)
    IN  /\ Len(after.holdings) = Len(h)
        /\ IsPrefix(before.trades, after.trades)
        /\ \A i \in 1..Len(h) :
              /\ after.holdings[i].shares \in {h[i].shares, 0}
              /\ after.holdings[i].ticker = h[i].ticker
              /\ after.holdings[i].avg_price = h[i].avg_price
              /\ (h[i].shares <= 0 \/ Spared(h[i], q[h[i].ticker], stop))
                 => /\ after.holdings[i] = h[i]
                    /\ \A k \in new : after.trades[k].ticker # h[i].ticker
        /\ after.cash = before.cash + SumAmounts(after.trades, "SELL", Len(after.trades))
                                    - SumAmounts(before.trades, "SELL", Len(before.trades))
        /\ \A k \in new :
              /\ after.trades[k].type = "SELL"
              /\ SharesOf(after.holdings, after.trades[k].ticker) = 0
              /\ SharesOf(h, after.trades[k].ticker) > 0

\* C10: whatever the gateway answers, check_stop_loss and check_stop_loss_all
\* leave untouched every holding whose quote is unavailable or strictly above
\* the threshold, leave every holding with its share count or with 0, and do
\* not save a ledger in which nothing was liquidated.
C10_SweepFrame ==
    /\ \A q \in RepliesFor(OpenTickers(portfolio.holdings)) :
          \A o \in {CheckStopLossResult(portfolio, q)} :
              /\ SweepFrame(portfolio, o.p, q, STOP_LOSS_PCT)
              /\ o.p.holdings = portfolio.holdings => ~o.saved
    /\ \A q \in RepliesFor(OpenStrategyTickers) :
          \A o \in {CheckStopLossAllResult(portfolios, q)} :
              \A key \in StrategyKeys :
                  /\ SweepFrame(portfolios[key], o.ps[key], q, StopLossOf(key))
                  /\ o.ps[key].holdings = portfolios[key].holdings
                     => key \notin o.written

\* a sweep has just run over an open holding, sold nothing and saved nothing
C10_Witness ==
    /\ last.op = "check_stop_loss" /\ last.result = "nothing"
    /\ last.written = {}
    /\ OpenTickers(portfolio.holdings) # {}

----------------------------------------------------------------------------
(* run_all_strategies, step by step *)

\* The analyses a snapshot gives rise to: every candidate is priced at its
\* newest close in the snapshot.  run_full_analysis reads the market_data.json
\* that refresh_market_data has just written, so it finds the file.
CycleAnalyses ==
    [key \in StrategyKeys |->
        [md \in MarketSnapshots |->
            {a \in AnalysesOf(key) :
                /\ a.ok
                /\ \A i \in 1..Len(a.candidates) :
                      md[a.candidates[i].ticker] = a.candidates[i].price}]]

\* the stop-loss sweep right after the first strategy's turn
StationSweepFirst(k) == [pc |-> "sweep", k |-> 0]

\* a buy loop that a strategy's turn ends
StationAborted(k) == [pc |-> "idle", k |-> 0]

\* where the cycle stands after the turn of strategy k of the buy loop: at the
\* next strategy, and at the stop-loss sweep once the loop is through
Station(k) ==
    IF k < Len(STRATEGIES)
    THEN [pc |-> "buy", k |-> k + 1]
    ELSE [pc |-> "sweep", k |-> 0]

\* [1/4] market_data = refresh_market_data(client): the charts go to
\* market_data.json and to the cycle's local
CycleRefresh(md) ==
    /\ cycle.pc = "idle"
    /\ cycle' = [pc |-> "buy", k |-> 1, md |-> md, file |-> md,
                 events |-> <<"refresh">>, analysed |-> {}, failed |-> {}]
    /\ last' = Outcome("refresh_market_data", "applied", {"market_data"})
    /\ UNCHANGED <<portfolio, portfolios, trader, calc, loop>>

\* [2/4] one turn of the buy loop.  dual_momentum analyses the file,
\* the strategy classes analyse the local; news_sentiment and scalping
\* raise in load_strategy before any analysis.
CycleBuyPhase(analysis) ==
    /\ cycle.pc = "buy"
    /\ \E key \in {STRATEGIES[cycle.k]} :
        \E o \in {BuyPhaseResult(portfolios[key], key, analysis, cycle.md, NoReplies)} :
        \E journal_ok \in JournalOutcomes(Len(o.p.trades) > Len(portfolios[key].trades)) :
            /\ StrategyBudget([portfolios EXCEPT ![key] = o.p])
            /\ portfolios' = IF journal_ok
                             THEN [portfolios EXCEPT ![key] = o.p]
                             ELSE portfolios
            /\ last' = Alerting(
                         IF journal_ok
                         THEN Outcome("buy_phase", o.result,
                                      IF o.saved THEN {key} ELSE {})
                         ELSE Outcome("buy_phase", "error", {}),
                         portfolios[key], o.p, journal_ok)
            /\ cycle' = [cycle EXCEPT
                            !.pc = Station(cycle.k).pc,
                            !.k = Station(cycle.k).k,
                            !.events = Append(@, key),
                            !.failed = IF o.result = "error" \/ ~journal_ok
                                       THEN @ \cup {key} ELSE @,
                            !.analysed =
                                IF o.result \in {"skipped", "error"} /\ journal_ok
                                THEN @
                                ELSE @ \cup {IF key = "dual_momentum"
                                             THEN cycle.file ELSE cycle.md}]
    /\ UNCHANGED <<portfolio, trader, calc, loop>>

\* [3/4] check_stop_loss_all(client)
CycleSweep(q) ==
    /\ cycle.pc = "sweep"
    /\ \E o \in {CheckStopLossAllResult(portfolios, q)} :
          /\ StrategyBudget(o.ps)
          /\ portfolios' = o.ps
          /\ last' = Outcome("check_stop_loss_all",
                             IF o.raised THEN "raised"
                             ELSE IF o.written = {} THEN "nothing" ELSE "applied",
                             o.written)
          /\ cycle' = IF o.raised
                      THEN [cycle EXCEPT !.pc = "idle"]
                      ELSE [cycle EXCEPT !.pc = "report",
                                         !.events = Append(@, "sweep")]
    /\ UNCHANGED <<portfolio, trader, calc, loop>>

\* [4/4] generate_comparison_report(client, market_data)
CycleReport(q) ==
    /\ cycle.pc = "report"
    /\ \E o \in {GenerateComparisonReportResult(portfolios, cycle.md, q)} :
          /\ portfolios' = o.ps
          /\ last' = Outcome("generate_comparison_report",
                             IF o.raised THEN "raised" ELSE "applied", o.written)
          /\ cycle' = [cycle EXCEPT !.pc = "idle",
                                    !.events = IF o.raised THEN @
                                               ELSE Append(@, "report")]
    /\ UNCHANGED <<portfolio, trader, calc, loop>>

CycleNext ==
    \/ \E md \in MarketSnapshots : CycleRefresh(md)
    \/ /\ cycle.pc = "buy"
       /\ \E a \in IF HasHoldings(portfolios[STRATEGIES[cycle.k]])
                    THEN {NoAnalysis}
                    ELSE CycleAnalyses[STRATEGIES[cycle.k]]
                             [IF STRATEGIES[cycle.k] = "dual_momentum"
                              THEN cycle.file ELSE cycle.md] :
             CycleBuyPhase(a)
    \/ /\ cycle.pc = "sweep"
       /\ \E q \in RepliesFor(OpenStrategyTickers) : CycleSweep(q)
    \/ /\ cycle.pc = "report"
       /\ \E q \in ReplyKindsFor({t \in OpenStrategyTickers : cycle.md[t] = 0}) :
             CycleReport(q)

CycleSpec == Init /\ [][CycleNext]_vars

----------------------------------------------------------------------------
(* The allocation and analysis functions, called on their own *)

\* DualMomentumStrategy.TOTAL_CASH, on the scale of the seeds
TOTAL_CASH == 400

\* the first instruments of config.ETF_WATCHLIST, in dict order
WatchList == <<"069500", "102110", "229200">>

\* vol as analyze reports it: NoneValue stands for "-", and round(vol, 1) is
\* 0.0 for a volatility under 0.05
VolLevels == {NoneValue, 0, 10, 30}

\* candidates = [r for r in results if r["trend_ok"] and r["score"] > 0][:TOP_N]
TopCandidates(results) ==
    LET kept == SelectSeq(results, LAMBDA r : r.trend_ok /\ r.score > 0)
    IN  SubSeq(kept, 1, IF Len(kept) < TOP_N THEN Len(kept) ELSE TOP_N)

\* vols = [r["vol"] if r["vol"] != "-" else 20.0 for r in candidates]
Vols(candidates) ==
    [i \in 1..Len(candidates) |->
        IF candidates[i].vol = NoneValue THEN 20 ELSE candidates[i].vol]

RECURSIVE ProdExcept(_, _, _)
\* the product of vols[j] over j <= n, j # i
ProdExcept(vols, i, n) ==
    IF n = 0 THEN 1
    ELSE (IF n = i THEN 1 ELSE vols[n]) * ProdExcept(vols, i, n - 1)

RECURSIVE SumProdExcept(_, _)
SumProdExcept(vols, k) ==
    IF k = 0 THEN 0
    ELSE ProdExcept(vols, k, Len(vols)) + SumProdExcept(vols, k - 1)

\* weights[i] = (1 / vols[i]) / sum(1 / v for v in vols), as a fraction
InverseVolWeight(vols, i) ==
    [num |-> ProdExcept(vols, i, Len(vols)),
     den |-> SumProdExcept(vols, Len(vols))]

\* DualMomentumStrategy.get_allocation: [raised, allocations].  1 / v raises
\* ZeroDivisionError for a vol of 0.0, alloc_cash // r["price"] for a price
\* of 0.
GetAllocation(results, cash) ==
    LET c == TopCandidates(results)
        vols == Vols(c)
    IN  IF Len(c) = 0
        THEN [raised |-> FALSE, allocations |-> <<>>]
        ELSE IF \E i \in 1..Len(c) : vols[i] = 0 \/ c[i].price = 0
        THEN [raised |-> TRUE, allocations |-> <<>>]
        ELSE [raised |-> FALSE,
              allocations |->
                [i \in 1..Len(c) |->
                    LET w == InverseVolWeight(vols, i)
                        alloc_cash == (cash * w.num) \div w.den
                    IN  [ticker |-> c[i].ticker, price |-> c[i].price,
                         vol |-> c[i].vol, weight_pct |-> w,
                         alloc_cash |-> alloc_cash,
                         shares |-> PyFloorDiv(alloc_cash, c[i].price)]]]

\* run_full_analysis on a market_data.json whose analysis is results:
\* get_allocation(results, TOTAL_CASH)
RunFullAnalysis(results) == GetAllocation(results, TOTAL_CASH)

\* the newest closes the results were computed from (cur = prices[0])
ClosesOf(results) ==
    [t \in {WatchList[i] : i \in 1..Len(WatchList)} |->
        IF \E i \in 1..Len(results) : results[i].ticker = t
        THEN (CHOOSE r \in {results[i] : i \in 1..Len(results)} : r.ticker = t).price
        ELSE 0]

\* run_strategy_analysis("dual_momentum", market_data) with cash in the
\* dual_momentum ledger
RunDualMomentumAnalysis(results, cash) ==
    LET full == RunFullAnalysis(results)
    IN  IF full.raised
        THEN [raised |-> TRUE, allocations |-> <<>>]
        ELSE RunStrategyAnalysis("dual_momentum",
                                 [ok |-> TRUE, candidates |-> full.allocations],
                                 ClosesOf(results), cash)

\* get_allocations with the weights it sized by
GetAllocationsWeighed(candidates, cash) ==
    [raised |-> FALSE,
     allocations |-> GetAllocations(candidates, cash),
     weights |-> IF Len(candidates) = 0 \/ cash <= 0 THEN <<>>
                 ELSE [i \in 1..Len(candidates) |->
                          CappedWeight(RawWeight(candidates, i))]]

\* An indicator of analyze is kept as [avail, zero]: whether the function
\* returned a number rather than None, and whether that number is 0.  prices
\* are newest first.

\* calc_momentum: None if len(prices) < period + 1
CalcMomentum(prices, period) ==
    [avail |-> Len(prices) >= period + 1,
     zero |-> Len(prices) >= period + 1 /\ prices[1] = prices[period + 1]]

\* calc_ma: None if len(prices) < period; a mean of positive prices is not 0
CalcMa(prices, period) ==
    [avail |-> Len(prices) >= period,
     zero |-> Len(prices) >= period /\ \A i \in 1..period : prices[i] = 0]

\* calc_rsi: None if len(prices) < period + 1; with no gain among the first
\* period returns avg_gain = 0, rs = 0 and 100 - 100 / (1 + 0) is 0.0
CalcRsi(prices, period) ==
    [avail |-> Len(prices) >= period + 1,
     zero |-> /\ Len(prices) >= period + 1
              /\ \A i \in 1..period : prices[i] <= prices[i + 1]]

\* calc_volatility: the period shrinks to len(prices) - 1, None only when no
\* return is left; the variance is 0 when all returns are equal
CalcVolatility(prices, period) ==
    LET per == IF Len(prices) < period + 1 THEN Len(prices) - 1 ELSE period
    IN  [avail |-> per >= 1,
         zero |-> /\ per >= 1
                  /\ \A i, j \in 1..per :
                        prices[i] * prices[j + 1] = prices[j] * prices[i + 1]]

\* calc_sharpe: None if len(prices) < 5 or std_daily == 0.  The mean daily
\* return of these histories is never exactly 0.035 / 252, so a Sharpe ratio
\* that is computed is not 0.
CalcSharpe(prices) ==
    [avail |-> /\ Len(prices) >= 5
               /\ \E i, j \in 1..(Len(prices) - 1) :
                     prices[i] * prices[j + 1] # prices[j] * prices[i + 1],
     zero |-> FALSE]

\* "x if x else ...": None and 0.0 are both falsy
Truthy(v) == v.avail /\ ~v.zero

\* round(x) if x else "-"
Reported(v) == IF Truthy(v) THEN "number" ELSE "-"

Min(a, b) == IF a < b THEN a ELSE b

\* DualMomentumStrategy.analyze for one instrument: the indicators as
\* computed, as reported, and how rsi enters the score
Analyze(prices) ==
    IF Len(prices) < 5
    THEN [skipped |-> TRUE]
    ELSE LET ind == [ma5 |-> CalcMa(prices, 5),
                     ma20 |-> CalcMa(prices, 20),
                     m1 |-> CalcMomentum(prices, Min(20, Len(prices) - 1)),
                     m3 |-> CalcMomentum(prices, Min(60, Len(prices) - 1)),
                     rsi |-> CalcRsi(prices, 14),
                     vol |-> CalcVolatility(prices, Min(20, Len(prices) - 1)),
                     sharpe |-> CalcSharpe(prices)]
         IN  [skipped |-> FALSE,
              computed |-> ind,
              reported |-> [k \in DOMAIN ind |-> Reported(ind[k])],
              rsi_norm |-> IF Truthy(ind.rsi) THEN "computed" ELSE "neutral"]

\* lengths of price history around the thresholds of the indicators
HistoryLengths == {4, 5, 14, 15, 19, 20, 21}

\* a price history of n closes, newest first
History(n, shape) ==
    [i \in 1..n |->
        CASE shape = "flat" -> 100
          [] shape = "rising" -> 100 + n - i
          [] shape = "falling" -> 100 + i
          [] OTHER -> IF i % 2 = 1 THEN 100 ELSE 93]

PriceHistories ==
    {History(n, shape) :
        n \in HistoryLengths, shape \in {"flat", "rising", "falling", "zigzag"}}

\* results of analyze handed to get_allocation: one entry per instrument of
\* the watch list, a price of 0 where the newest close is 0
QuantResults ==
    {s \in UNION {[1..n -> [ticker : {WatchList[i] : i \in 1..Len(WatchList)},
                            price : PriceLevels \cup {0}, vol : VolLevels,
                            trend_ok : BOOLEAN, score : {0, 1}]] :
                     n \in 0..MaxAllocs} :
        \A i \in 1..Len(s) : s[i].ticker = WatchList[i]}

\* candidates handed to get_allocations
ValueCandidates ==
    {s \in UNION {[1..n -> [ticker : {WatchList[i] : i \in 1..Len(WatchList)},
                            price : PriceLevels \cup {0},
                            score : {0, 1, 3, 6}]] :
                     n \in 0..Len(WatchList)} :
        \A i \in 1..Len(s) : s[i].ticker = WatchList[i]}

\* the cash of a ledger a function is called with
CashLevels == {0, StrategySeed, TOTAL_CASH, 25000000}

\* ledgers handed to a stop-loss sweep: one position of 10 shares bought at
\* 1000 or at 920, open or already liquidated, out of a cash of 25,000,000
SweptLedgers ==
    {[cash |-> 25000000 - 10 * a, trades |-> <<BuyTrade("069500", 10, a)>>,
      holdings |-> <<[ticker |-> "069500", shares |-> n, avg_price |-> a]>>] :
        a \in {920, 1000}, n \in {0, 10}}

\* the strategy ledger files with such a position in one of them
SweptStrategyLedgers ==
    {[k \in StrategyKeys |->
        IF k = key
        THEN [cash |-> l.cash, holdings |-> l.holdings, trades |-> l.trades,
              seed |-> 25000000, report |-> <<>>]
        ELSE FreshStrategyLedger] :
        key \in StrategyKeys, l \in SweptLedgers}

\* what the gateway answers a sweep: a price of 920, 930 or 1000, nothing or
\* an exception for the instrument held, nothing for the other
SweepQuotes ==
    {[t \in Tickers |-> IF t = "069500" THEN r ELSE NoReply] :
        r \in {[rt |-> "ok", price |-> c] : c \in {920, 930, 1000}}
                 \cup {[rt |-> "none", price |-> 0],
                        [rt |-> "raise", price |-> 0]}}

\* ledgers with a position in each instrument, and what the gateway
\* answers a sweep about the two
PairLedgers ==
    {[cash |-> 25000000 - 10 * a - 10 * b,
      trades |-> <<BuyTrade("069500", 10, a), BuyTrade("102110", 10, b)>>,
      holdings |-> <<[ticker |-> "069500", shares |-> 10, avg_price |-> a],
                     [ticker |-> "102110", shares |-> n, avg_price |-> b]>>] :
        a \in {920, 1000}, b \in {920, 1000}, n \in {0, 10}}

PairQuotes ==
    {[t \in Tickers |-> IF t = "069500" THEN r ELSE r2] :
        r \in {[rt |-> "ok", price |-> c] : c \in {920, 1000}},
        r2 \in {[rt |-> "ok", price |-> c] : c \in {920, 1000}}
                  \cup {[rt |-> "raise", price |-> 0]}}

Call(fn, inp) == [fn |-> fn, inp |-> inp, out |-> <<>>, done |-> FALSE]

CalcInputs ==
    {Call("get_allocations", [candidates |-> c, cash |-> cash]) :
        c \in ValueCandidates, cash \in CashLevels}
    \cup {Call("get_allocation", [results |-> r, cash |-> cash]) :
             r \in QuantResults, cash \in CashLevels}
    \cup {Call("run_strategy_analysis", [results |-> r, cash |-> cash]) :
             r \in QuantResults, cash \in CashLevels}
    \cup {Call("analyze", [prices |-> h]) : h \in PriceHistories}
    \cup {Call("check_stop_loss_all", [ps |-> ps, q |-> q]) :
             ps \in SweptStrategyLedgers, q \in SweepQuotes}
    \cup {Call("check_stop_loss", [p |-> l, q |-> q]) :
             l \in SweptLedgers, q \in SweepQuotes}
    \cup {Call("check_stop_loss", [p |-> l, q |-> q]) :
             l \in PairLedgers, q \in PairQuotes}

CalcInit ==
    /\ FreshLedgers
    /\ cycle = CycleIdle
    /\ trader = TraderIdle
    /\ loop = LoopIdle
    /\ calc \in CalcInputs

\* the call returns
Return(out) ==
    /\ ~calc.done
    /\ calc' = [calc EXCEPT !.out = out, !.done = TRUE]
    /\ UNCHANGED <<portfolio, portfolios, last, cycle, trader, loop>>

ApplyGetAllocations ==
    /\ calc.fn = "get_allocations"
    /\ Return(GetAllocationsWeighed(calc.inp.candidates, calc.inp.cash))

ApplyGetAllocation ==
    /\ calc.fn = "get_allocation"
    /\ Return(GetAllocation(calc.inp.results, calc.inp.cash))

ApplyRunStrategyAnalysis ==
    /\ calc.fn = "run_strategy_analysis"
    /\ Return(RunDualMomentumAnalysis(calc.inp.results, calc.inp.cash))

ApplyAnalyze ==
    /\ calc.fn = "analyze"
    /\ Return(Analyze(calc.inp.prices))

ApplyCheckStopLossAll ==
    /\ calc.fn = "check_stop_loss_all"
    /\ Return(CheckStopLossAllResult(calc.inp.ps, calc.inp.q))

ApplyCheckStopLoss ==
    /\ calc.fn = "check_stop_loss"
    /\ Return(CheckStopLossResult(calc.inp.p, calc.inp.q))

\* the next sweep reads the ledger files the last one left, and is answered
\* the same prices
SweepAllAgain ==
    /\ calc.fn = "check_stop_loss_all"
    /\ calc.done
    /\ calc' = [calc EXCEPT
                  !.inp.ps = calc.out.ps,
                  !.out = CheckStopLossAllResult(calc.out.ps, calc.inp.q)]
    /\ UNCHANGED <<portfolio, portfolios, last, cycle, trader, loop>>

SweepAgain ==
    /\ calc.fn = "check_stop_loss"
    /\ calc.done
    /\ calc' = [calc EXCEPT
                  !.inp.p = calc.out.p,
                  !.out = CheckStopLossResult(calc.out.p, calc.inp.q)]
    /\ UNCHANGED <<portfolio, portfolios, last, cycle, trader, loop>>

CalcNext ==
    \/ ApplyGetAllocations
    \/ ApplyGetAllocation
    \/ ApplyRunStrategyAnalysis
    \/ ApplyAnalyze
    \/ ApplyCheckStopLossAll
    \/ ApplyCheckStopLoss
    \/ SweepAllAgain
    \/ SweepAgain

CalcSpec == CalcInit /\ [][CalcNext]_vars

----------------------------------------------------------------------------
(* auto_trader.py: run_trading_day, tick by tick *)

\* The windows of the day the loop's conditions tell apart: before 08:55,
\* 08:55-08:58, up to 09:01, 09:01-09:05, the open market outside a sweep
\* slot, a sweep slot (minute % 10 = 0, second < 15), 15:20-15:25, later.
ClockWindows ==
    {"night", "analysis", "gap", "buy", "open", "sweep", "close", "after"}

\* the windows that can follow window c
Later(c) ==
    CASE c = "night" -> {"analysis"}
      [] c = "analysis" -> {"gap"}
      [] c = "gap" -> {"buy"}
      [] c = "buy" -> {"open"}
      [] c = "open" -> {"sweep"}
      [] c = "sweep" -> {"open", "close"}
      [] c = "close" -> {"after"}
      [] OTHER -> {}

\* the branch of the if/elif chain one pass of the loop takes
Branch(clock, morning_done) ==
    IF clock = "analysis" /\ ~morning_done THEN "analysis"
    ELSE IF clock = "buy" /\ morning_done THEN "buy"
    ELSE IF clock = "sweep" THEN "sweep"
    ELSE IF clock = "close" THEN "close"
    ELSE "none"

\* one pass of the loop with a buy branch that does not look at the ledger
TickDoesIgnoringHoldings(clock, morning_done, swept_recently, p) ==
    LET b ==
          IF clock = "analysis" /\ ~morning_done THEN "analysis"
          ELSE IF clock = "buy" /\ morning_done THEN "buy"
          ELSE IF clock = "sweep" THEN "sweep"
          ELSE IF clock = "close" THEN "close"
          ELSE "none"
    IN  IF b = "sweep" /\ swept_recently THEN "none" ELSE b

\* what one pass of the loop does, given the clock, the loop's two locals
\* and the ledger on disk: the buy branch does nothing for a ledger with an
\* open position, the sweep branch nothing within 550 s of the last sweep
TickDoes(clock, morning_done, swept_recently, p) ==
    LET b == Branch(clock, morning_done)
    IN  IF b = "buy" /\ HasHoldings(p) THEN "none"
        ELSE IF b = "sweep" /\ swept_recently THEN "none"
        ELSE b

\* what the running process is about to do
NextTick ==
    TickDoes(trader.clock, trader.morning_done, trader.swept_recently,
             portfolio)

\* the fields of an allocation execute_buy_plan reads from strategy_plan.json
PlanOf(allocations) ==
    [i \in 1..Len(allocations) |->
        [ticker |-> allocations[i].ticker, shares |-> allocations[i].shares]]

\* time.sleep(10) at the end of a pass: the clock stays in its window or
\* moves to the next; a sweep slot left is more than 550 s from the next
Sleep(tr) ==
    \E c \in {tr.clock} \cup Later(tr.clock) :
        trader' = [tr EXCEPT !.clock = c,
                             !.swept_recently = @ /\ c = tr.clock]

\* the process is gone, and its locals with it
Stopped(tr) ==
    [tr EXCEPT !.running = FALSE, !.morning_done = FALSE,
               !.swept_recently = FALSE]

\* python auto_trader.py: morning_done = False, stop_loss_last = 0
TraderStart ==
    /\ ~trader.running
    /\ trader.clock # "after"
    /\ trader' = [trader EXCEPT !.running = TRUE, !.morning_done = FALSE,
                                !.swept_recently = FALSE]
    /\ last' = Outcome("run_trading_day", "started", {})
    /\ UNCHANGED <<portfolio, portfolios, cycle, calc, loop>>

\* the process is terminated between two passes of the loop
TraderKill ==
    /\ trader.running
    /\ trader' = Stopped(trader)
    /\ last' = Outcome("run_trading_day", "terminated", {})
    /\ UNCHANGED <<portfolio, portfolios, cycle, calc, loop>>

\* time passes while no process runs
Elapse ==
    /\ ~trader.running
    /\ \E c \in Later(trader.clock) : trader' = [trader EXCEPT !.clock = c]
    /\ UNCHANGED <<portfolio, portfolios, last, cycle, calc, loop>>

\* 08:55: refresh_market_data and run_full_analysis, which writes
\* strategy_plan.json; an exception of the gateway or of get_allocation is
\* not handled and ends the process
TickAnalysis ==
    /\ trader.running
    /\ NextTick = "analysis"
    /\ \E refreshed \in BOOLEAN :
         \E results \in (IF refreshed THEN QuantResults ELSE {<<>>}) :
           \E o \in {RunFullAnalysis(results)} :
             IF refreshed /\ ~o.raised
             THEN /\ Sleep([trader EXCEPT !.morning_done = TRUE,
                                          !.plan = PlanOf(o.allocations),
                                          !.has_plan = TRUE])
                  /\ last' = Outcome("tick_analysis", "planned", {"strategy_plan"})
             ELSE /\ trader' = Stopped(trader)
                  /\ last' = Outcome("tick_analysis", "raised", {})
    /\ UNCHANGED <<portfolio, portfolios, cycle, calc, loop>>

\* 09:01: execute_buy_plan on the allocations of strategy_plan.json, inside
\* try/except Exception: a missing plan, a gateway exception and a journal
\* failure are logged and the loop goes on
TickBuy ==
    /\ trader.running
    /\ NextTick = "buy"
    /\ IF ~trader.has_plan
       THEN /\ last' = Outcome("tick_buy", "error", {})
            /\ Sleep(trader)
            /\ UNCHANGED portfolio
       ELSE \E q \in RepliesFor(Asked(trader.plan)) :
              \E o \in {ExecuteBuyPlanResult(portfolio, trader.plan, q)} :
                \E journal_ok \in JournalOutcomes(o.result = "applied") :
                  /\ SimBudget(o.p)
                  /\ portfolio' = IF journal_ok THEN o.p ELSE portfolio
                  /\ last' = Alerting(
                               IF journal_ok /\ o.result # "raised"
                               THEN Outcome("tick_buy", o.result, SimWritten(o.saved))
                               ELSE Outcome("tick_buy", "error", {}),
                               portfolio, o.reached, journal_ok)
                  /\ Sleep([trader EXCEPT
                               !.bought = IF journal_ok /\ o.result = "applied"
                                          THEN @ + 1 ELSE @])
    /\ UNCHANGED <<portfolios, cycle, calc, loop>>

\* every ten minutes of the open market: check_stop_loss, then
\* stop_loss_last = time.time(); an exception ends the process
TickSweep ==
    /\ trader.running
    /\ NextTick = "sweep"
    /\ \E q \in RepliesFor(OpenTickers(portfolio.holdings)) :
         \E o \in {CheckStopLossResult(portfolio, q)} :
           \E journal_ok \in JournalOutcomes(o.result = "applied") :
             /\ SimBudget(o.p)
             /\ IF journal_ok /\ o.result # "raised"
                THEN /\ portfolio' = o.p
                     /\ last' = Alerting(
                                  Outcome("tick_sweep", o.result, SimWritten(o.saved)),
                                  portfolio, o.reached, TRUE)
                     /\ Sleep([trader EXCEPT !.swept_recently = TRUE])
                ELSE /\ portfolio' = portfolio
                     /\ last' = Alerting(Outcome("tick_sweep", "raised", {}),
                                         portfolio, o.reached, journal_ok)
                     /\ trader' = Stopped(trader)
    /\ UNCHANGED <<portfolios, cycle, calc, loop>>

\* daily_report reads the ledger and quotes every open position: an
\* exception of the gateway, an avg_price of 0 under a quoted position and a
\* journal that cannot be opened raise
DailyReportRaises(p, q, journal_ok) ==
    \/ ~journal_ok
    \/ \E i \in 1..Len(p.holdings) :
          /\ p.holdings[i].shares > 0
          /\ \/ q[p.holdings[i].ticker].rt = "raise"
             \/ /\ ~Falsy(SimGetCurrentPrice(q[p.holdings[i].ticker]))
                /\ p.holdings[i].avg_price = 0

\* 15:20: daily_report, morning_done = False, break; the ledger is only
\* read, and an exception of daily_report ends the process all the same
TickClose ==
    /\ trader.running
    /\ NextTick = "close"
    /\ trader' = Stopped(trader)
    /\ \E q \in ReplyKindsFor(OpenTickers(portfolio.holdings)), journal_ok \in BOOLEAN :
          last' = Outcome("tick_close",
                          IF DailyReportRaises(portfolio, q, journal_ok)
                          THEN "raised" ELSE "reported", {})
    /\ UNCHANGED <<portfolio, portfolios, cycle, calc, loop>>

\* no branch applies, or its inner condition fails: only the sleep
TickIdle ==
    /\ trader.running
    /\ NextTick = "none"
    /\ Sleep(trader)
    /\ last' = Outcome("tick_idle", "nothing", {})
    /\ UNCHANGED <<portfolio, portfolios, cycle, calc, loop>>

TraderNext ==
    \/ TraderStart
    \/ TraderKill
    \/ Elapse
    \/ TickAnalysis
    \/ TickBuy
    \/ TickSweep
    \/ TickClose
    \/ TickIdle

TraderSpec == Init /\ [][TraderNext]_vars

----------------------------------------------------------------------------
(* auto_trader.py: run_trading_day, by the second *)

\* datetime.time(h, m, s) as seconds since midnight
Clock(h, m, s) == h * 3600 + m * 60 + s

\* is_market_open: dtime(9, 0) <= t <= dtime(15, 30)
IsMarketOpen(t) == Clock(9, 0, 0) <= t /\ t <= Clock(15, 30, 0)

\* the branch of the if/elif chain a pass starting at second now takes
LoopBranch(now, morning_done) ==
    IF Clock(8, 55, 0) <= now /\ now <= Clock(8, 58, 0) /\ ~morning_done
    THEN "analysis"
    ELSE IF Clock(9, 1, 0) <= now /\ now <= Clock(9, 5, 0) /\ morning_done
    THEN "buy"
    ELSE IF IsMarketOpen(now) /\ (now \div 60) % 10 = 0 /\ now % 60 < 15
    THEN "sweep"
    ELSE IF Clock(15, 20, 0) <= now /\ now <= Clock(15, 25, 0)
    THEN "close"
    ELSE "none"

\* what the pass does: 'if not has_holdings' inside the buy branch,
\* 'if time.time() - stop_loss_last > 550' inside the sweep branch
LoopDoes(now, morning_done, stop_loss_last, p) ==
    LET b == LoopBranch(now, morning_done)
    IN  IF b = "buy" /\ HasHoldings(p) THEN "none"
        ELSE IF b = "sweep" /\ ~(now - stop_loss_last > 550) THEN "none"
        ELSE b

NextPass ==
    LoopDoes(loop.now, loop.morning_done, loop.stop_loss_last, portfolio)

\* Seconds a pass spends in its calls before the sleep: the requests of the
\* gateway carry no timeout, send_telegram waits up to 10 s per alert, and
\* execute_buy_plan and check_stop_loss end with git push.
WorkTimes == {0, 5, 70}

\* the seconds of the day the process is started at
StartTimes == {Clock(8, 54, 55), Clock(9, 9, 55)}

\* what analyze hands get_allocation in the morning: at most one instrument
LoopResults == {r \in QuantResults : Len(r) <= 1}

\* time.sleep(10) after work seconds of work
Slept(l, work) == [l EXCEPT !.now = @ + work + 10]

Exited(l) == [l EXCEPT !.running = FALSE]

LoopInit ==
    /\ FreshLedgers
    /\ cycle = CycleIdle
    /\ trader = TraderIdle
    /\ calc = CalcIdle
    /\ \E t \in StartTimes :
         loop = [LoopIdle EXCEPT !.running = TRUE, !.now = t, !.started = t]

PassAnalysis ==
    /\ loop.running
    /\ NextPass = "analysis"
    /\ \E work \in WorkTimes, refreshed \in BOOLEAN :
         \E results \in (IF refreshed THEN LoopResults ELSE {<<>>}) :
           \E o \in {RunFullAnalysis(results)} :
             IF refreshed /\ ~o.raised
             THEN /\ loop' = Slept([loop EXCEPT !.morning_done = TRUE,
                                                !.plan = PlanOf(o.allocations)],
                                   work)
                  /\ last' = Outcome("pass_analysis", "planned", {"strategy_plan"})
             ELSE /\ loop' = Exited(loop)
                  /\ last' = Outcome("pass_analysis", "raised", {})
    /\ UNCHANGED <<portfolio, portfolios, cycle, trader, calc>>

PassBuy ==
    /\ loop.running
    /\ NextPass = "buy"
    /\ \E work \in WorkTimes, q \in RepliesFor(Asked(loop.plan)) :
         \E o \in {ExecuteBuyPlanResult(portfolio, loop.plan, q)} :
           \E journal_ok \in JournalOutcomes(o.result = "applied") :
             /\ SimBudget(o.p)
             /\ portfolio' = IF journal_ok THEN o.p ELSE portfolio
             /\ last' = Alerting(
                          IF journal_ok /\ o.result # "raised"
                          THEN Outcome("pass_buy", o.result, SimWritten(o.saved))
                          ELSE Outcome("pass_buy", "error", {}),
                          portfolio, o.reached, journal_ok)
             /\ loop' = Slept(loop, work)
    /\ UNCHANGED <<portfolios, cycle, trader, calc>>

\* check_stop_loss(client), then stop_loss_last = time.time()
PassSweep ==
    /\ loop.running
    /\ NextPass = "sweep"
    /\ \E work \in WorkTimes, q \in RepliesFor(OpenTickers(portfolio.holdings)) :
         \E o \in {CheckStopLossResult(portfolio, q)} :
           \E journal_ok \in JournalOutcomes(o.result = "applied") :
             /\ SimBudget(o.p)
             /\ IF journal_ok /\ o.result # "raised"
                THEN /\ portfolio' = o.p
                     /\ last' = Alerting(
                                  Outcome("pass_sweep", o.result, SimWritten(o.saved)),
                                  portfolio, o.reached, TRUE)
                     /\ loop' = Slept([loop EXCEPT
                                         !.stop_loss_last = loop.now + work,
                                         !.prev_sweep = loop.last_sweep,
                                         !.last_sweep = loop.now],
                                      work)
                ELSE /\ portfolio' = portfolio
                     /\ last' = Alerting(Outcome("pass_sweep", "raised", {}),
                                         portfolio, o.reached, journal_ok)
                     /\ loop' = Exited(loop)
    /\ UNCHANGED <<portfolios, cycle, trader, calc>>

PassClose ==
    /\ loop.running
    /\ NextPass = "close"
    /\ loop' = Exited([loop EXCEPT !.morning_done = FALSE])
    /\ \E q \in ReplyKindsFor(OpenTickers(portfolio.holdings)), journal_ok \in BOOLEAN :
          last' = Outcome("pass_close",
                          IF DailyReportRaises(portfolio, q, journal_ok)
                          THEN "raised" ELSE "reported", {})
    /\ UNCHANGED <<portfolio, portfolios, cycle, trader, calc>>

PassIdle ==
    /\ loop.running
    /\ NextPass = "none"
    /\ loop' = Slept(loop, 0)
    /\ last' = Outcome("pass_idle", "nothing", {})
    /\ UNCHANGED <<portfolio, portfolios, cycle, trader, calc>>

LoopNext ==
    \/ PassAnalysis
    \/ PassBuy
    \/ PassSweep
    \/ PassClose
    \/ PassIdle

LoopSpec == LoopInit /\ [][LoopNext]_vars

----------------------------------------------------------------------------
(* Properties of the coordinator and of the scheduled day *)

\* C11: whatever the analysis and the snapshot, the buy phase of a strategy
\* whose ledger holds an open position (shares > 0) is skipped: nothing is
\* analysed or bought and the ledger is neither changed nor saved.
C11_HoldingStrategySkipped ==
    \A key \in StrategyKeys :
        OpenTickers(portfolios[key].holdings) # {}
        => \A inp \in PhaseInputs[key] :
              \A o \in {BuyPhaseResult(portfolios[key], key, inp.analysis,
                                       inp.md, NoReplies)} :
                  /\ o.result = "skipped"
                  /\ o.p = portfolios[key]
                  /\ ~o.saved

\* a buy phase has just skipped a strategy that bought in an earlier one
C11_Witness ==
    /\ last.op = "buy_phase"
    /\ last.result = "skipped"
    /\ \E key \in StrategyKeys :
          /\ OpenTickers(portfolios[key].holdings) # {}
          /\ Len(portfolios[key].trades) > 0

\* C20: no buy and no stop-loss liquidation ends with the failure of a sink
\* propagated to its caller and the trades it applied left unsaved.
C20_SinkFailuresContained == last.result # "sink_raised"

\* C13: the return percentage the comparison report writes for a strategy is
\* (evalValue + cash - seed) / seed * 100, rounded to two decimals, where
\* evalValue (the total_profit written plus the cost of the open holdings)
\* is the sum of current price * shares over the open holdings.
C13_ReturnOnSeed ==
    [][(last'.op = "generate_comparison_report" /\ last'.result = "applied") =>
        \A key \in StrategyKeys :
            LET l == portfolios'[key]
                evalValue == l.report[1] + CostBasis(l.holdings, Len(l.holdings))
            IN  l.report[2]
                  = RoundHundredths((evalValue + l.cash - l.seed) * 100, l.seed)
      ]_vars

\* C14: generate_comparison_report leaves every strategy ledger exactly as
\* it was persisted before the call.
C14_ReportLeavesLedgers ==
    [][last'.op = "generate_comparison_report" => portfolios' = portfolios]_vars

C19_TickIgnoresProcessMemory ==
    trader.running /\ trader.has_plan /\ trader.clock # "analysis" =>
        NextTick = TickDoes(trader.clock, FALSE, FALSE, portfolio)

----------------------------------------------------------------------------
(* Properties of the allocation and analysis functions *)

\* the shares an allocation list gives instrument t
SharesIn(allocations, t) ==
    IF \E i \in 1..Len(allocations) : allocations[i].ticker = t
    THEN (CHOOSE a \in {allocations[i] : i \in 1..Len(allocations)} :
              a.ticker = t).shares
    ELSE 0

\* score_i / total score capped at 40%, or 1 / n capped when the total is 0
ExpectedValueWeight(c, i) ==
    LET total == SumScores(c, Len(c))
        raw == IF total = 0 THEN [num |-> 1, den |-> Len(c)]
               ELSE [num |-> c[i].score, den |-> total]
    IN  IF 100 * raw.num > 40 * raw.den THEN [num |-> 2, den |-> 5] ELSE raw

\* C15: get_allocations sizes candidate i by min(score_i / total score, 0.40)
\* (1 / n for a total of 0) without renormalising: shares * price never
\* exceeds 0.40 * cash, and scores [6, 3, 1] with cash 25,000,000 give the
\* weights [0.4, 0.3, 0.1], 20,000,000 of cash allocated and the rest kept.
C15_CappedScoreWeights ==
    (calc.fn = "get_allocations" /\ calc.done) =>
        LET c == calc.inp.candidates
            cash == calc.inp.cash
            out == calc.out
        IN  IF Len(c) = 0 \/ cash <= 0
            THEN out.allocations = <<>>
            ELSE /\ Len(out.allocations) = Len(c)
                 /\ \A i \in 1..Len(c) :
                       LET e == ExpectedValueWeight(c, i)
                           w == out.weights[i]
                           a == out.allocations[i]
                       IN  /\ w.num * e.den = e.num * w.den
                           /\ a.ticker = c[i].ticker
                           /\ a.shares * c[i].price * 100 <= 40 * cash
                           /\ a.shares =
                                 IF c[i].price > 0 /\ cash * e.num >= c[i].price * e.den
                                 THEN (cash * e.num) \div (e.den * c[i].price)
                                 ELSE 0
                 /\ ([i \in 1..Len(c) |-> c[i].score] = <<6, 3, 1>> /\ cash = 25000000)
                    => /\ \A i \in 1..3 :
                             out.weights[i].num * <<5, 10, 10>>[i]
                                = <<2, 3, 1>>[i] * out.weights[i].den
                       /\ (cash * out.weights[1].num) \div out.weights[1].den
                            + (cash * out.weights[2].num) \div out.weights[2].den
                            + (cash * out.weights[3].num) \div out.weights[3].den
                          = 20000000
                       /\ out.allocations[1].shares * c[1].price
                            + out.allocations[2].shares * c[2].price
                            + out.allocations[3].shares * c[3].price
                          <= 20000000

\* get_allocations has sized the candidates of scores 6, 3, 1 with 25,000,000
C15_Witness ==
    /\ calc.fn = "get_allocations"
    /\ calc.done
    /\ calc.inp.cash = 25000000
    /\ [i \in 1..Len(calc.inp.candidates) |-> calc.inp.candidates[i].score]
          = <<6, 3, 1>>
    /\ \A i \in 1..3 : calc.out.allocations[i].shares > 0

\* C16: for dual_momentum, from get_allocation and from the allocations
\* run_strategy_analysis derives, every eligible candidate gets
\* floor(cash * w / price) shares, w its inverse-volatility weight.
C16_SharesByInverseVolatility ==
    (/\ calc.done
     /\ calc.fn \in {"get_allocation", "run_strategy_analysis"}
     /\ ~calc.out.raised) =>
        LET c == TopCandidates(calc.inp.results)
            vols == Vols(c)
        IN  \A i \in 1..Len(c) :
                LET w == InverseVolWeight(vols, i)
                IN  SharesIn(calc.out.allocations, c[i].ticker)
                      = (calc.inp.cash * w.num) \div (w.den * c[i].price)

Sufficient(k, n) ==
    CASE k = "ma5" -> n >= 5
      [] k = "ma20" -> n >= 20
      [] k = "rsi" -> n >= 15
      [] k = "sharpe" -> n >= 5
      [] OTHER -> n >= 2

\* C18: analyze reports an indicator as "-" exactly when the price history
\* is too short to compute it, and an rsi that was computed enters the score
\* as computed, also when it is 0.
C18_SentinelOnlyWhenHistoryShort ==
    (calc.done /\ calc.fn = "analyze" /\ ~calc.out.skipped) =>
        /\ \A k \in DOMAIN calc.out.reported :
              (calc.out.reported[k] = "-") <=> ~Sufficient(k, Len(calc.inp.prices))
        /\ Sufficient("rsi", Len(calc.inp.prices)) => calc.out.rsi_norm = "computed"

----------------------------------------------------------------------------
(* Properties of reset, of conservation and of the scheduled loop *)

SweepBefore ==
    IF calc.fn = "check_stop_loss_all"
    THEN calc.inp.ps["dual_momentum"] ELSE calc.inp.p

SweepAfter ==
    IF calc.fn = "check_stop_loss_all"
    THEN calc.out.ps["dual_momentum"] ELSE calc.out.p

\* C22: a sweep of a ledger whose one position is 10 shares at an average
\* price of 1000, quoted at 920 (pct = -8% <= -7.0), leaves the position
\* with 0 shares, the cash 9200 higher and the trade log one record longer,
\* a SELL with reason STOP_LOSS.
C22_ScenarioLiquidated ==
    (/\ calc.done
     /\ calc.fn \in {"check_stop_loss_all", "check_stop_loss"}
     /\ SweepBefore.holdings =
            <<[ticker |-> "069500", shares |-> 10, avg_price |-> 1000]>>
     /\ calc.inp.q["069500"] = [rt |-> "ok", price |-> 920])
    => /\ SweepAfter.holdings[1].shares = 0
       /\ SweepAfter.cash = SweepBefore.cash + 9200
       /\ Len(SweepAfter.trades) = Len(SweepBefore.trades) + 1
       /\ SweepAfter.trades[Len(SweepAfter.trades)].type = "SELL"
       /\ SweepAfter.trades[Len(SweepAfter.trades)].reason = "STOP_LOSS"

RECURSIVE SumShares(_, _, _, _)
\* the sum of the shares of the trades of one type in instrument t among the
\* first n
SumShares(trades, type, t, n) ==
    IF n = 0
    THEN 0
    ELSE SumShares(trades, type, t, n - 1)
            + (IF trades[n].type = type /\ trades[n].ticker = t
               THEN trades[n].shares ELSE 0)

\* the shares a ledger holds of instrument t, 0 without a holding entry
SharesHeld(holdings, t) == IF Held(holdings, t) THEN HGet(holdings, t).shares ELSE 0

\* C23: in every ledger and for every instrument, the shares held equal the
\* shares of the BUY trades of the instrument minus the shares of its SELL
\* trades in the trade log of the ledger.
C23_SharesConserved ==
    \A l \in Ledgers : \A t \in Tickers :
        SharesHeld(l.holdings, t)
            = SumShares(l.trades, "BUY", t, Len(l.trades))
                - SumShares(l.trades, "SELL", t, Len(l.trades))

\* C24: in every ledger the cash and the amounts of the BUY trades of the
\* trade log add up to the initial cash and the amounts of its SELL trades.
C24_CashConserved ==
    \A l \in Ledgers :
        l.cash + SumAmounts(l.trades, "BUY", Len(l.trades))
            = l.seed + SumAmounts(l.trades, "SELL", Len(l.trades))

\* a manual sell at a price other than the price paid has been recorded
\* after a buy
C24_Witness ==
    /\ Len(portfolio.trades) = 2
    /\ portfolio.trades[1].type = "BUY" /\ portfolio.trades[1].shares > 0
    /\ portfolio.trades[2].type = "SELL" /\ portfolio.trades[2].shares > 0
    /\ portfolio.trades[2].price # portfolio.trades[1].price
    /\ portfolio.cash # InitialCash

\* whether seq a ends seq b
IsSuffix(a, b) ==
    Len(a) <= Len(b) /\ a = SubSeq(b, Len(b) - Len(a) + 1, Len(b))

\* C25: the trades a buy or a stop-loss sweep alerted and journalled are in
\* the ledger on disk when the handler is over, however it ended: they are
\* the newest records of the trade log of some ledger file.
C25_AlertsMatchPersistedTrades ==
    last.alerted # <<>> => \E l \in Ledgers : IsSuffix(last.alerted, l.trades)

\* C26: run_trading_day executes the buy plan only when the analysis has
\* been done by the same process, the clock is inside 09:01-09:05 and the
\* ledger has no open position; BUY trades reach portfolio.json by no other
\* pass of the loop, and by at most one execution of the plan in the day.
C26_BuyPlanOncePerDay ==
    [][/\ last'.op = "tick_buy" =>
             /\ trader.running /\ trader.morning_done
             /\ trader.clock = "buy"
             /\ OpenTickers(portfolio.holdings) = {}
       /\ Len(portfolio'.trades) > Len(portfolio.trades)
             /\ portfolio'.trades[Len(portfolio'.trades)].type = "BUY"
             => last'.op = "tick_buy"
       /\ trader'.bought <= 1]_vars

\* the plan has bought, and a later pass inside the window did nothing
C26_Witness ==
    /\ trader.running /\ trader.clock = "buy"
    /\ trader.bought = 1
    /\ last.op = "tick_idle"
    /\ OpenTickers(portfolio.holdings) # {}

\* C28: the loop of run_trading_day ends in one way only, by the pass of
\* the 15:20-15:25 window that has produced the daily report; nothing is
\* bought or swept by the process after it.
C28_ExitsOnlyAfterReport ==
    [][/\ trader.running /\ ~trader'.running /\ last'.result # "terminated"
             => last'.op = "tick_close" /\ last'.result = "reported"
       /\ ~trader.running /\ last.op = "tick_close"
             => portfolio' = portfolio \/ trader'.running]_vars

\* the newest minute divisible by 10 at or before second t
SlotOf(t) == (t \div 600) * 600

\* C27: a sweep of run_trading_day starts only while the market is open;
\* two consecutive sweeps start more than 550 seconds apart; and every
\* minute divisible by 10 of the market hours through which the loop has
\* been running has had its sweep once its first 15 seconds are over.
C27_EverySlotSweptOnce ==
    /\ loop.last_sweep >= 0 => IsMarketOpen(loop.last_sweep)
    /\ loop.prev_sweep >= 0 => loop.last_sweep - loop.prev_sweep > 550
    /\ (/\ loop.running
        /\ IsMarketOpen(SlotOf(loop.now))
        /\ loop.started <= SlotOf(loop.now)
        /\ loop.now >= SlotOf(loop.now) + 15)
       => loop.last_sweep >= SlotOf(loop.now)

\* C29: a turn of the buy loop of run_all_strategies touches the ledger of
\* its own strategy only and hands over to the next strategy, or to the
\* stop-loss sweep after the last one, with the same market data, whether
\* or not its analysis or its buy raised; a turn that raised leaves every
\* ledger as it was; and the sweep is followed by the comparison report.
C29_StrategyFailureContained ==
    [][/\ cycle.pc = "buy" =>
             /\ \A j \in StrategyKeys \ {STRATEGIES[cycle.k]} :
                    portfolios'[j] = portfolios[j]
             /\ cycle'.md = cycle.md /\ cycle'.file = cycle.file
             /\ cycle'.pc = IF cycle.k < Len(STRATEGIES) THEN "buy" ELSE "sweep"
             /\ cycle'.k = IF cycle.k < Len(STRATEGIES) THEN cycle.k + 1 ELSE 0
             /\ STRATEGIES[cycle.k] \in cycle'.failed => portfolios' = portfolios
       /\ cycle.pc = "sweep" /\ cycle.failed # {} =>
             cycle'.pc = "report" /\ last'.op = "check_stop_loss_all"
       /\ cycle.pc = "report" /\ cycle.failed # {} =>
             last'.op = "generate_comparison_report"]_vars

\* a cycle has run to its report; the buy of the first strategy raised, the
\* second strategy bought, the modules of the last two are missing
C29_Witness ==
    /\ cycle.pc = "idle"
    /\ cycle.failed = {"dual_momentum", "news_sentiment", "scalping"}
    /\ Len(portfolios["dual_momentum"].trades) = 0
    /\ Len(portfolios["value_investing"].trades) > 0
    /\ last.op = "generate_comparison_report" /\ last.result = "applied"
    /\ cycle.events = <<"refresh">> \o STRATEGIES \o <<"sweep", "report">>

====
